---- MODULE Spec2Model ----
(***************************************************************************)
(* Register-number allocation, single refresh and bulk resequencing of the *)
(* event-registration application (eventapp/models.py, eventapp/views.py,  *)
(* eventapp/admin.py), with the request handlers running concurrently      *)
(* against one relational store.                                           *)
(*                                                                         *)
(* The store is modelled with the semantics the code asks for:             *)
(* transaction.atomic() blocks whose writes become visible at commit,      *)
(* select_for_update() row locks held until the transaction ends, a unique *)
(* index on Application.register_no checked at every write, and statements *)
(* outside atomic() committing on their own.                               *)
(***************************************************************************)
EXTENDS Integers, Sequences, FiniteSets, TLC

\* ------------------------------------------------------------------------
\* Strings are sequences of one-character strings, so that strip(), upper(),
\* lower(), startswith() and the `in` substring test are computed.
\* ------------------------------------------------------------------------
UpperLetters == <<"A","B","C","D","E","F","G","H","I","J","K","L","M",
                  "N","O","P","Q","R","S","T","U","V","W","X","Y","Z">>
LowerLetters == <<"a","b","c","d","e","f","g","h","i","j","k","l","m",
                  "n","o","p","q","r","s","t","u","v","w","x","y","z">>
Whitespace == {" ", "\t", "\n"}

ToUpper(c) ==
    IF \E i \in 1..26 : LowerLetters[i] = c
    THEN UpperLetters[CHOOSE i \in 1..26 : LowerLetters[i] = c]
    ELSE c

ToLower(c) ==
    IF \E i \in 1..26 : UpperLetters[i] = c
    THEN LowerLetters[CHOOSE i \in 1..26 : UpperLetters[i] = c]
    ELSE c

Upper(s) == [i \in 1..Len(s) |-> ToUpper(s[i])]
Lower(s) == [i \in 1..Len(s) |-> ToLower(s[i])]

RECURSIVE LStrip(_)
LStrip(s) == IF s # <<>> /\ Head(s) \in Whitespace THEN LStrip(Tail(s)) ELSE s

RECURSIVE RStrip(_)
RStrip(s) ==
    IF s # <<>> /\ s[Len(s)] \in Whitespace
    THEN RStrip(SubSeq(s, 1, Len(s) - 1))
    ELSE s

Strip(s) == RStrip(LStrip(s))

StartsWith(s, t) == Len(t) <= Len(s) /\ SubSeq(s, 1, Len(t)) = t

\* Python's `t in s` for strings.
Contains(s, t) ==
    \E i \in 0..(Len(s) - Len(t)) : SubSeq(s, i + 1, i + Len(t)) = t

\* ------------------------------------------------------------------------
\* Key derivation (models.py)
\* ------------------------------------------------------------------------
\* Python's None: a value that is no string
None == <<"None">>

\* (program_name or ""): None and "" are falsy
OrEmpty(v) == IF v = None \/ v = <<>> THEN <<>> ELSE v

\* the same chain on the text as typed, without .upper()
level_case_sensitive(program_name) ==
    LET s == Strip(OrEmpty(program_name)) IN
    IF StartsWith(s, <<"K","G"," ">>) THEN "KG"
    ELSE IF StartsWith(s, <<"L","P"," ">>) THEN "LP"
    ELSE IF StartsWith(s, <<"U","P"," ">>) THEN "UP"
    ELSE IF StartsWith(s, <<"H","S"," ">>) THEN "HS"
    ELSE IF StartsWith(s, <<"L","K","G"," ">>) THEN "KG"
    ELSE IF StartsWith(s, <<"U","K","G"," ">>) THEN "KG"
    ELSE "GEN"

level_for_program(program_name) ==
    LET s == Upper(Strip(OrEmpty(program_name))) IN
    IF StartsWith(s, <<"K","G"," ">>) THEN "KG"
    ELSE IF StartsWith(s, <<"L","P"," ">>) THEN "LP"
    ELSE IF StartsWith(s, <<"U","P"," ">>) THEN "UP"
    ELSE IF StartsWith(s, <<"H","S"," ">>) THEN "HS"
    ELSE IF StartsWith(s, <<"L","K","G"," ">>) THEN "KG"
    ELSE IF StartsWith(s, <<"U","K","G"," ">>) THEN "KG"
    ELSE "GEN"

\* the generic rules tried before the specific ones
prefix_generic_first(program_name) ==
    LET title == Lower(OrEmpty(program_name))
        has(w) == Contains(title, w)
    IN
    IF has(<<"m","u","s","i","c">>) THEN "MUS"
    ELSE IF has(<<"d","r","a","w","i","n","g">>) THEN "DRA"
    ELSE IF has(<<"d","a","n","c","e">>) THEN "DAN"
    ELSE IF has(<<"g","r","o","u","p"," ","s","o","n","g">>)
         \/ has(<<"g","r","o","u","p"," ","s","i","n","g","i","n","g">>) THEN "GMU"
    ELSE IF has(<<"e","l","o","c","u","t","i","o","n">>) THEN "ELU"
    ELSE IF has(<<"f","o","l","k">>) /\ has(<<"d","a","n","c","e">>) THEN "FOK"
    ELSE IF (has(<<"c","i","n","e","m","a","t","i","c">>) \/ has(<<"c","i","n","e","m","a">>))
              /\ has(<<"d","a","n","c","e">>) THEN "CIN"
    ELSE IF has(<<"f","a","n","c","y">>) /\ has(<<"d","r","e","s","s">>) THEN "FAN"
    ELSE "GEN"

\* the fallback forgotten: the function falls off its end and returns None
prefix_without_fallback(program_name) ==
    LET title == Lower(OrEmpty(program_name))
        has(w) == Contains(title, w)
    IN
    IF has(<<"g","r","o","u","p"," ","s","o","n","g">>)
         \/ has(<<"g","r","o","u","p"," ","s","i","n","g","i","n","g">>) THEN "GMU"
    ELSE IF has(<<"e","l","o","c","u","t","i","o","n">>) THEN "ELU"
    ELSE IF has(<<"f","o","l","k">>) /\ has(<<"d","a","n","c","e">>) THEN "FOK"
    ELSE IF (has(<<"c","i","n","e","m","a","t","i","c">>) \/ has(<<"c","i","n","e","m","a">>))
              /\ has(<<"d","a","n","c","e">>) THEN "CIN"
    ELSE IF has(<<"f","a","n","c","y">>) /\ has(<<"d","r","e","s","s">>) THEN "FAN"
    ELSE IF has(<<"m","u","s","i","c">>) THEN "MUS"
    ELSE IF has(<<"d","r","a","w","i","n","g">>) THEN "DRA"
    ELSE IF has(<<"d","a","n","c","e">>) THEN "DAN"
    ELSE "None"

prefix_for_program(program_name) ==
    LET title == Lower(OrEmpty(program_name))
        has(w) == Contains(title, w)
    IN
    IF has(<<"g","r","o","u","p"," ","s","o","n","g">>)
         \/ has(<<"g","r","o","u","p"," ","s","i","n","g","i","n","g">>) THEN "GMU"
    ELSE IF has(<<"e","l","o","c","u","t","i","o","n">>) THEN "ELU"
    ELSE IF has(<<"f","o","l","k">>) /\ has(<<"d","a","n","c","e">>) THEN "FOK"
    ELSE IF (has(<<"c","i","n","e","m","a","t","i","c">>) \/ has(<<"c","i","n","e","m","a">>))
              /\ has(<<"d","a","n","c","e">>) THEN "CIN"
    ELSE IF has(<<"f","a","n","c","y">>) /\ has(<<"d","r","e","s","s">>) THEN "FAN"
    ELSE IF has(<<"m","u","s","i","c">>) THEN "MUS"
    ELSE IF has(<<"d","r","a","w","i","n","g">>) THEN "DRA"
    ELSE IF has(<<"d","a","n","c","e">>) THEN "DAN"
    ELSE "GEN"

\* key = f"{level}-{prefix}", kept as the pair of its two parts
KeyFor(program_name) ==
    <<level_for_program(program_name), prefix_for_program(program_name)>>

\* ------------------------------------------------------------------------
\* Number formatting
\* ------------------------------------------------------------------------
RECURSIVE Digits(_)
Digits(n) == IF n < 10 THEN <<n>> ELSE Append(Digits(n \div 10), n % 10)

RECURSIVE ZeroPad(_, _)
\* Python's format spec 0Nd: at least `width` digits, never truncated
ZeroPad(ds, width) == IF Len(ds) >= width THEN ds ELSE ZeroPad(<<0>> \o ds, width)

\* f"{level}-{prefix}{current:02d}"
FormatTwoDigits(key, current) == <<key[1], "-", key[2]>> \o ZeroPad(Digits(current), 2)

\* f"{level}-{prefix}{current:03d}"
FormatRegisterNo(key, current) == <<key[1], "-", key[2]>> \o ZeroPad(Digits(current), 3)

\* f"TMP{a.pk:07d}"
TempRegisterNo(pk) == <<"TMP">> \o ZeroPad(Digits(pk), 7)

\* ------------------------------------------------------------------------
\* Bounds of the model
\* ------------------------------------------------------------------------
MaxApps == 3       \* Application rows ever inserted (primary keys 1..MaxApps)
MaxCounter == 3    \* allocations stop once a counter would pass this value
MaxClock == 1      \* submitted_at timestamps 0..MaxClock
MaxRequests == 4   \* requests served in one behaviour

\* two request workers: every race between the handlers is between two requests
Procs == {1, 2}

\* "LP Folk Dance" and "HS Music": the programme names the forms offer here
ProgramNames ==
    { <<"L","P"," ","F","o","l","k"," ","D","a","n","c","e">>,
      <<"H","S"," ","M","u","s","i","c">> }

\* key of every programme name, computed once
KeyOf == [n \in ProgramNames |-> KeyFor(n)]

VARIABLES
    apps,        \* Application table: pk -> row (committed state)
    counters,    \* RegisterCounter table: key -> current (committed state)
    nextPk,      \* next AutoField value of Application
    now,         \* latest reading of the clock by auto_now_add
    pc,          \* where each worker is in its handler
    loc,         \* each worker's local variables / uncommitted writes
    lockC,       \* RegisterCounter rows each worker's transaction has locked
    lockA,       \* Application rows each worker's transaction has locked
    result,      \* each worker's last finished request: <<handler, "ok" or "error">>
    started,     \* number of requests started so far
    onlyApply,   \* history: no committed change other than submissions so far
    issued,      \* history: <<key, n>> issued since the last resequence-all commit
    issuedA,     \* history: same, also emptied by an admin-site counter edit
    dirty,       \* history: another commit happened since the worker's resequence began
    lastReseq,   \* history: <<apps, counters, runs>> left by an undisturbed
                 \*          resequence-all (runs: the first, or a later one in a
                 \*          row), while nothing else has committed since
    call,        \* a call of one of the helper functions on its own: the
                 \* function, its argument, the counter before and after, its
                 \* results
    session,     \* request.session of each browser: its "is_logged_in" entry
    req,         \* the request served last: browser, handler, how it ended,
                 \* and the Application row it stored
    schools,     \* School table: pk -> name
    programmes,  \* Programme table: pk -> row
    banners,     \* Banner table: pk -> row
    details,     \* Application table, the columns beside the three in apps:
                 \* pk -> school, team_size, members, name, mobile, is_winner,
                 \* winner_rank
    nextId       \* next AutoField value of School, Programme and Banner

base == <<apps, counters, nextPk, now, pc, loc, lockC, lockA, result, started>>
hist == <<onlyApply, issued, issuedA, dirty, lastReseq>>
site == <<session, req, schools, programmes, banners, details, nextId>>
side == <<call, site>>
vars == <<apps, counters, nextPk, now, pc, loc, lockC, lockA, result, started,
          onlyApply, issued, issuedA, dirty, lastReseq, call,
          session, req, schools, programmes, banners, details, nextId>>

NoRow == [program_name |-> <<>>, register_no |-> <<>>, submitted_at |-> 0]

NoCall == [fn |-> "none", arg |-> <<>>, base |-> 0, counter |-> 0, ret |-> <<>>]

\* the browsers that send requests
Clients == {"browser1", "browser2"}

NoReq == [client |-> "none", handler |-> "none", outcome |-> "none", pk |-> 0,
          args |-> <<>>]

\* nothing stored beside applications and counters, nobody logged in
SiteInit ==
    /\ session = [c \in Clients |-> FALSE]
    /\ req = NoReq
    /\ schools = <<>>
    /\ programmes = <<>>
    /\ banners = <<>>
    /\ details = <<>>
    /\ nextId = [school |-> 1, programme |-> 1, banner |-> 1]

NoLoc == [pk |-> 0, program_name |-> <<>>, row |-> NoRow, key |-> <<>>,
          current |-> 0, regno |-> <<>>, list |-> <<>>]

\* timezone.now() at an INSERT: the clock has not moved since the last one, or
\* it has
Clock == {t \in {now, now + 1} : t <= MaxClock}

Put(f, k, v) == [x \in (DOMAIN f) \cup {k} |-> IF x = k THEN v ELSE f[x]]

Drop(f, k) == [x \in (DOMAIN f) \ {k} |-> f[x]]

Init ==
    /\ apps = <<>>
    /\ counters = <<>>
    /\ nextPk = 1
    /\ now = 0
    /\ pc = [p \in Procs |-> "idle"]
    /\ loc = [p \in Procs |-> NoLoc]
    /\ lockC = [p \in Procs |-> {}]
    /\ lockA = [p \in Procs |-> {}]
    /\ result = [p \in Procs |-> <<"none", "none">>]
    /\ started = 0
    /\ onlyApply = TRUE
    /\ issued = {}
    /\ issuedA = {}
    /\ dirty = [p \in Procs |-> FALSE]
    /\ lastReseq = <<>>
    /\ call = NoCall
    /\ SiteInit

\* ------------------------------------------------------------------------
\* The store
\* ------------------------------------------------------------------------
\* register_no = models.CharField(max_length=10, unique=True): the rows other
\* than `pk` that hold `regno`
Holders(table, regno, pk) ==
    {x \in DOMAIN table : x # pk /\ table[x].register_no = regno}

\* register_no without unique=True
UniqueOff(table, regno, pk) == TRUE

UniqueOK(table, regno, pk) == Holders(table, regno, pk) = {}

\* the counter read without select_for_update()
NoCounterLock(p, key) == TRUE

\* select_for_update(): the row lock on a RegisterCounter row (or on the key
\* another transaction is inserting) is free for worker p
CounterLockFree(p, key) == \A q \in Procs \ {p} : key \notin lockC[q]

\* workers whose transaction holds the row lock on Application row pk
AppLockers(p, pk) == {q \in Procs \ {p} : pk \in lockA[q]}

\* get_or_create(prefix=key, defaults={"current": 0})
get_or_create(key) == IF key \in DOMAIN counters THEN counters[key] ELSE 0

\* the number formatted from the value read, before the increment
next_register_no_stale(key, current) ==
    [current |-> current + 1, regno |-> FormatRegisterNo(key, current)]

\* the number formatted with the generic key whatever the programme
next_register_no_generic(key, current) ==
    [current |-> current + 1, regno |-> FormatRegisterNo(<<"GEN", "GEN">>, current + 1)]

\* counter.current += 1; return f"{level}-{prefix}{counter.current:03d}"
next_register_no(key, current) ==
    [current |-> current + 1, regno |-> FormatRegisterNo(key, current + 1)]

\* a new request goes to the first idle worker
Accepts(p) ==
    /\ pc[p] = "idle"
    /\ \A q \in Procs : q < p => pc[q] # "idle"
    /\ started < MaxRequests
    /\ started' = started + 1

\* the handler a worker is in
Handler(p) ==
    CASE pc[p] = "apply_insert" -> "apply"
      [] pc[p] \in {"refresh_alloc", "refresh_save"} -> "refresh"
      [] pc[p] = "edit_save" -> "edit"
      [] pc[p] \in {"reseq_reset", "reseq_assign"} -> "reseq"
      [] OTHER -> "none"

\* the worker's request ends, and with it its transaction: the row locks are
\* released; an exception is answered with an error message or an error page
Finish(p, outcome) ==
    /\ pc' = [pc EXCEPT ![p] = "idle"]
    /\ loc' = [loc EXCEPT ![p] = NoLoc]
    /\ lockC' = [lockC EXCEPT ![p] = {}]
    /\ lockA' = [lockA EXCEPT ![p] = {}]
    /\ result' = [result EXCEPT ![p] = <<Handler(p), outcome>>]
    /\ started' = started

\* the counter increment committed on its own although the request failed
KeepsIncrement(p) ==
    IF pc[p] \in {"apply_insert", "refresh_save"}
    THEN Put(counters, loc[p].key, loc[p].current)
    ELSE counters

\* the placeholder pass left in the table by a failed resequence-all
LeavesPlaceholders(p) ==
    IF pc[p] \in {"reseq_reset", "reseq_assign"}
    THEN [pk \in DOMAIN apps |->
            IF \E i \in 1..Len(loc[p].list) : loc[p].list[i].pk = pk
            THEN [apps[pk] EXCEPT !.register_no = TempRegisterNo(pk)]
            ELSE apps[pk]]
    ELSE apps

\* what a rolled-back transaction leaves in the two tables
RolledBackApps(p) == apps

RolledBackCounters(p) == counters

Rollback(p, outcome) ==
    /\ apps' = RolledBackApps(p)
    /\ counters' = RolledBackCounters(p)
    /\ UNCHANGED <<nextPk, now>>
    /\ Finish(p, outcome)

\* history bookkeeping of one step: kind of the committed change ("none" when
\* nothing was committed) and the numbers an allocation handed out
Record(p, kind, handed) ==
    /\ onlyApply' = (onlyApply /\ kind \in {"none", "apply"})
    /\ issued' = IF kind = "reseq" THEN {} ELSE issued \cup handed
    /\ issuedA' = IF kind \in {"reseq", "admin"} THEN {} ELSE issuedA \cup handed
    /\ dirty' = IF kind = "none" THEN dirty
                ELSE [q \in Procs |-> TRUE]
    /\ lastReseq' = IF kind = "none" THEN lastReseq
                    ELSE IF kind = "reseq" /\ ~dirty[p]
                    THEN <<apps', counters', IF lastReseq = <<>> THEN 1 ELSE 2>>
                    ELSE <<>>
    /\ UNCHANGED side

\* ------------------------------------------------------------------------
\* Who a worker's next statement has to wait for
\* ------------------------------------------------------------------------
\* keys of the applications a resequence-all has loaded
ListKeys(list) == {KeyOf[list[i].program_name] : i \in 1..Len(list)}

\* a write of regno to row pk waits for the transactions that have locked (and
\* are rewriting) a row holding regno: the unique index decides at their end
UniqueWaits(p, regno, pk) ==
    {q \in Procs \ {p} : Holders(apps, regno, pk) \cap lockA[q] # {}}

WaitsFor(p) ==
    CASE pc[p] = "apply_insert" -> UniqueWaits(p, loc[p].regno, 0)
      [] pc[p] = "refresh_alloc" ->
            {q \in Procs \ {p} : KeyOf[loc[p].program_name] \in lockC[q]}
      [] pc[p] = "refresh_save" ->
            IF loc[p].pk \in DOMAIN apps
            THEN AppLockers(p, loc[p].pk) \cup UniqueWaits(p, loc[p].regno, loc[p].pk)
            ELSE {}
      [] pc[p] = "edit_save" ->
            AppLockers(p, loc[p].pk) \cup UniqueWaits(p, loc[p].row.register_no, loc[p].pk)
      [] pc[p] = "reseq_reset" ->
            {q \in Procs \ {p} : lockC[q] \cap DOMAIN counters # {}}
      [] pc[p] = "reseq_assign" ->
            {q \in Procs \ {p} : lockC[q] \cap (ListKeys(loc[p].list) \ lockC[p]) # {}}
      [] OTHER -> {}

RECURSIVE Reach(_, _)
Reach(seen, frontier) ==
    IF frontier = {} THEN seen
    ELSE LET nxt == UNION {WaitsFor(q) : q \in frontier}
         IN Reach(seen \cup nxt, nxt \ seen)

\* a database that never looks for cycles of waiting transactions
NoDeadlockDetection(p) == FALSE

\* p is part of a cycle of transactions waiting for each other
Deadlocked(p) == p \in Reach({}, {p})

\* ------------------------------------------------------------------------
\* apply (views.py): public submission
\* ------------------------------------------------------------------------
\* with transaction.atomic(): regno = Application.next_register_no(program_name)
ApplyAlloc(p, name) ==
    /\ Accepts(p)
    /\ nextPk <= MaxApps
    /\ CounterLockFree(p, KeyOf[name])
    /\ get_or_create(KeyOf[name]) < MaxCounter
    /\ LET n == next_register_no(KeyOf[name], get_or_create(KeyOf[name])) IN
       loc' = [loc EXCEPT ![p] = [NoLoc EXCEPT !.program_name = name,
                                               !.key = KeyOf[name],
                                               !.current = n.current,
                                               !.regno = n.regno]]
    /\ lockC' = [lockC EXCEPT ![p] = {KeyOf[name]}]
    /\ pc' = [pc EXCEPT ![p] = "apply_insert"]
    /\ UNCHANGED <<apps, counters, nextPk, now, lockA, result>>
    /\ UNCHANGED <<hist, side>>

\* Application.objects.create(..., register_no=regno, ...) and the commit
ApplyInsert(p) ==
    /\ pc[p] = "apply_insert"
    /\ WaitsFor(p) = {}
    /\ IF UniqueOK(apps, loc[p].regno, 0)
       THEN /\ \E t \in Clock :
                 /\ apps' = Put(apps, nextPk, [program_name |-> loc[p].program_name,
                                               register_no |-> loc[p].regno,
                                               submitted_at |-> t])
                 /\ now' = t
            /\ counters' = Put(counters, loc[p].key, loc[p].current)
            /\ nextPk' = nextPk + 1
            /\ Finish(p, "ok")
            /\ Record(p, "apply", {<<loc[p].key, loc[p].current>>})
       ELSE \* IntegrityError: caught, messages.error, transaction rolled back
            /\ Rollback(p, "error")
            /\ Record(p, "none", {})

\* ------------------------------------------------------------------------
\* application_refresh_register_no (views.py)
\* ------------------------------------------------------------------------
\* app = get_object_or_404(Application, pk=pk)
RefreshRead(p, pk) ==
    /\ Accepts(p)
    /\ pk \in DOMAIN apps
    /\ get_or_create(KeyOf[apps[pk].program_name]) < MaxCounter
    /\ loc' = [loc EXCEPT ![p] = [NoLoc EXCEPT !.pk = pk,
                                               !.program_name = apps[pk].program_name,
                                               !.row = apps[pk]]]
    /\ pc' = [pc EXCEPT ![p] = "refresh_alloc"]
    /\ UNCHANGED <<apps, counters, nextPk, now, lockC, lockA, result>>
    /\ UNCHANGED <<hist, side>>

\* with transaction.atomic(): app.register_no = Application.next_register_no(app.program_name)
RefreshAlloc(p) ==
    /\ pc[p] = "refresh_alloc"
    /\ CounterLockFree(p, KeyOf[loc[p].program_name])
    /\ LET key == KeyOf[loc[p].program_name]
           n == next_register_no(key, get_or_create(key)) IN
       loc' = [loc EXCEPT ![p].key = key, ![p].current = n.current, ![p].regno = n.regno]
    /\ lockC' = [lockC EXCEPT ![p] = {KeyOf[loc[p].program_name]}]
    /\ pc' = [pc EXCEPT ![p] = "refresh_save"]
    /\ UNCHANGED <<apps, counters, nextPk, now, lockA, result, started>>
    /\ UNCHANGED <<hist, side>>

\* app.save() without update_fields: every column from the loaded object
WholeRowSaved(stored, loaded, regno) == [loaded EXCEPT !.register_no = regno]

\* the row app.save(update_fields=["register_no"]) leaves: only register_no
\* is written, every other column keeps what the table holds
RefreshedRow(stored, loaded, regno) == [stored EXCEPT !.register_no = regno]

\* app.save(update_fields=["register_no"]) and the commit
RefreshSave(p) ==
    /\ pc[p] = "refresh_save"
    /\ WaitsFor(p) = {}
    /\ IF loc[p].pk \in DOMAIN apps /\ UniqueOK(apps, loc[p].regno, loc[p].pk)
       THEN /\ apps' = [apps EXCEPT ![loc[p].pk] =
                            RefreshedRow(apps[loc[p].pk], loc[p].row, loc[p].regno)]
            /\ counters' = Put(counters, loc[p].key, loc[p].current)
            /\ UNCHANGED <<nextPk, now>>
            /\ Finish(p, "ok")
            /\ Record(p, "refresh", {<<loc[p].key, loc[p].current>>})
       ELSE \* DatabaseError (row gone) or IntegrityError: caught, rolled back
            /\ Rollback(p, "error")
            /\ Record(p, "none", {})

\* ------------------------------------------------------------------------
\* application_edit and application_delete (views.py): no transaction.atomic,
\* each statement commits on its own
\* ------------------------------------------------------------------------
\* app = get_object_or_404(Application, pk=pk); the POSTed programme name
EditRead(p, pk, name) ==
    /\ Accepts(p)
    /\ pk \in DOMAIN apps
    /\ loc' = [loc EXCEPT ![p] = [NoLoc EXCEPT !.pk = pk, !.program_name = name,
                                               !.row = apps[pk]]]
    /\ pc' = [pc EXCEPT ![p] = "edit_save"]
    /\ UNCHANGED <<apps, counters, nextPk, now, lockC, lockA, result>>
    /\ UNCHANGED <<hist, side>>

\* app.save(): UPDATE of every column from the loaded object; when the row is
\* gone the UPDATE matches nothing and Model.save() INSERTs the object, with
\* auto_now_add stamping submitted_at anew
EditSave(p) ==
    /\ pc[p] = "edit_save"
    /\ WaitsFor(p) = {}
    /\ LET pk == loc[p].pk
           row == [loc[p].row EXCEPT !.program_name = loc[p].program_name] IN
       IF UniqueOK(apps, row.register_no, pk)
       THEN /\ IF pk \in DOMAIN apps
               THEN apps' = [apps EXCEPT ![pk] = row] /\ now' = now
               ELSE \E t \in Clock :
                       /\ apps' = Put(apps, pk, [row EXCEPT !.submitted_at = t])
                       /\ now' = t
            /\ UNCHANGED <<counters, nextPk>>
            /\ Finish(p, "ok")
            /\ Record(p, "edit", {})
       ELSE \* IntegrityError, not caught: the request fails, nothing written
            /\ UNCHANGED <<apps, counters, nextPk, now>>
            /\ Finish(p, "error")
            /\ Record(p, "none", {})

\* app = get_object_or_404(Application, pk=pk); app.delete()
ApplicationDelete(p, pk) ==
    /\ Accepts(p)
    /\ pk \in DOMAIN apps
    /\ AppLockers(p, pk) = {}
    /\ apps' = Drop(apps, pk)
    /\ result' = [result EXCEPT ![p] = <<"delete", "ok">>]
    /\ UNCHANGED <<counters, nextPk, now, pc, loc, lockC, lockA>>
    /\ Record(p, "delete", {})

\* ------------------------------------------------------------------------
\* RegisterCounterAdmin (admin.py): list_editable = ("current",)
\* ------------------------------------------------------------------------
AdminSetCounter(p, key, value) ==
    /\ Accepts(p)
    /\ key \in DOMAIN counters
    /\ counters[key] # value
    /\ CounterLockFree(p, key)
    /\ counters' = [counters EXCEPT ![key] = value]
    /\ result' = [result EXCEPT ![p] = <<"admin", "ok">>]
    /\ UNCHANGED <<apps, nextPk, now, pc, loc, lockC, lockA>>
    /\ Record(p, "admin", {})

\* ------------------------------------------------------------------------
\* applications_refresh_register_all (views.py)
\* ------------------------------------------------------------------------
\* order_by("submitted_at", "pk")
Before(table, a, b) ==
    \/ table[a].submitted_at < table[b].submitted_at
    \/ table[a].submitted_at = table[b].submitted_at /\ a < b

RECURSIVE Ordered(_, _)
Ordered(table, pks) ==
    IF pks = {} THEN <<>>
    ELSE LET first == CHOOSE a \in pks : \A b \in pks \ {a} : Before(table, a, b)
         IN <<first>> \o Ordered(table, pks \ {first})

\* apps = list(Application.objects.select_for_update().order_by("submitted_at", "pk"))
ReseqSelect(p) ==
    /\ Accepts(p)
    /\ \A pk \in DOMAIN apps : AppLockers(p, pk) = {}
    /\ LET order == Ordered(apps, DOMAIN apps) IN
       loc' = [loc EXCEPT ![p] = [NoLoc EXCEPT !.list =
                  [i \in 1..Len(order) |->
                      [pk |-> order[i], program_name |-> apps[order[i]].program_name]]]]
    /\ lockA' = [lockA EXCEPT ![p] = DOMAIN apps]
    /\ pc' = [pc EXCEPT ![p] = "reseq_reset"]
    /\ dirty' = [dirty EXCEPT ![p] = FALSE]
    /\ UNCHANGED <<apps, counters, nextPk, now, lockC, result>>
    /\ UNCHANGED <<onlyApply, issued, issuedA, lastReseq, side>>

\* the TMP pass, then RegisterCounter.objects.all().update(current=0): every
\* committed counter row is locked and (in this transaction) set to 0
ReseqReset(p) ==
    /\ pc[p] = "reseq_reset"
    /\ WaitsFor(p) = {}
    /\ lockC' = [lockC EXCEPT ![p] = DOMAIN counters]
    /\ pc' = [pc EXCEPT ![p] = "reseq_assign"]
    /\ UNCHANGED <<apps, counters, nextPk, now, loc, lockA, result, started>>
    /\ UNCHANGED <<hist, side>>

\* a sequence of UPDATEs of register_no, each checked by the unique index;
\* stops at the first IntegrityError with the table as written so far
RECURSIVE WriteAll(_, _)
WriteAll(table, writes) ==
    IF writes = <<>> THEN [ok |-> TRUE, table |-> table]
    ELSE LET pk == Head(writes)[1]
             regno == Head(writes)[2]
         IN IF UniqueOK(table, regno, pk)
            THEN WriteAll([table EXCEPT ![pk].register_no = regno], Tail(writes))
            ELSE [ok |-> FALSE, table |-> table]

\* for a in apps: a.register_no = f"TMP{a.pk:07d}"
TmpWrites(list) == [i \in 1..Len(list) |-> <<list[i].pk, TempRegisterNo(list[i].pk)>>]

\* the running count continued from the stored counter
per_key_from_counter(key) == get_or_create(key)

\* per_key_counts.get(key, 0)
per_key_start(key) == 0

\* step 3: per_key_counts[key] = per_key_counts.get(key, 0) + 1 and the final number
RECURSIVE Walk(_, _, _, _)
Walk(list, i, counts, writes) ==
    IF i > Len(list) THEN [counts |-> counts, writes |-> writes]
    ELSE LET key == KeyOf[list[i].program_name]
             n == (IF key \in DOMAIN counts THEN counts[key] ELSE per_key_start(key)) + 1
         IN Walk(list, i + 1, Put(counts, key, n),
                 Append(writes, <<list[i].pk, FormatRegisterNo(key, n)>>))

\* the two passes over the loaded applications, as the transaction sees them
ReseqWrites(p) ==
    LET plan == Walk(loc[p].list, 1, <<>>, <<>>)
        tmp == WriteAll(apps, TmpWrites(loc[p].list))
        fin == IF tmp.ok THEN WriteAll(tmp.table, plan.writes) ELSE tmp
    IN [ok |-> fin.ok, table |-> fin.table, counts |-> plan.counts]

\* step 2 and step 4: the rows reset to 0, then rc.current = current per key
\* (get_or_create for a key without a row)
PersistCounters(p, counts) ==
    [k \in (DOMAIN counters) \cup (DOMAIN counts) |->
        IF k \in DOMAIN counts THEN counts[k]
        ELSE IF k \in lockC[p] THEN 0
        ELSE counters[k]]

\* steps 3 and 4 and the commit
ReseqAssign(p) ==
    /\ pc[p] = "reseq_assign"
    /\ WaitsFor(p) = {}
    /\ \E w \in {ReseqWrites(p)} :    \* the writes, computed once
       IF w.ok
       THEN /\ apps' = w.table
            /\ counters' = PersistCounters(p, w.counts)
            /\ UNCHANGED <<nextPk, now>>
            /\ Finish(p, "ok")
            /\ Record(p, "reseq", {})
       ELSE \* IntegrityError, not caught: atomic() rolls everything back
            /\ Rollback(p, "error")
            /\ Record(p, "none", {})

\* ------------------------------------------------------------------------
\* The database ends a cycle of waiting transactions by aborting one of them
\* ------------------------------------------------------------------------
DeadlockAbort(p) ==
    /\ pc[p] # "idle"
    /\ Deadlocked(p)
    /\ Rollback(p, "error")
    /\ Record(p, "none", {})

Next ==
    \/ \E p \in Procs, name \in ProgramNames : ApplyAlloc(p, name)
    \/ \E p \in Procs : ApplyInsert(p)
    \/ \E p \in Procs, pk \in 1..MaxApps : RefreshRead(p, pk)
    \/ \E p \in Procs : RefreshAlloc(p)
    \/ \E p \in Procs : RefreshSave(p)
    \/ \E p \in Procs, pk \in 1..MaxApps, name \in ProgramNames : EditRead(p, pk, name)
    \/ \E p \in Procs : EditSave(p)
    \/ \E p \in Procs, pk \in 1..MaxApps : ApplicationDelete(p, pk)
    \/ \E p \in Procs, key \in DOMAIN counters, value \in 0..MaxCounter :
          AdminSetCounter(p, key, value)
    \/ \E p \in Procs : ReseqSelect(p)
    \/ \E p \in Procs : ReseqReset(p)
    \/ \E p \in Procs : ReseqAssign(p)
    \/ \E p \in Procs : DeadlockAbort(p)

Spec == Init /\ [][Next]_vars

\* submissions, single refreshes, deletes and resequence-all runs, interleaved
RaceNext ==
    \/ \E p \in Procs, name \in ProgramNames : ApplyAlloc(p, name)
    \/ \E p \in Procs : ApplyInsert(p)
    \/ \E p \in Procs, pk \in 1..MaxApps : RefreshRead(p, pk)
    \/ \E p \in Procs : RefreshAlloc(p)
    \/ \E p \in Procs : RefreshSave(p)
    \/ \E p \in Procs, pk \in 1..MaxApps : ApplicationDelete(p, pk)
    \/ \E p \in Procs : ReseqSelect(p)
    \/ \E p \in Procs : ReseqReset(p)
    \/ \E p \in Procs : ReseqAssign(p)
    \/ \E p \in Procs : DeadlockAbort(p)

RaceSpec == Init /\ [][RaceNext]_vars

\* the requests that take row locks: submissions, single refreshes and
\* resequence-all runs
LockNext ==
    \/ \E p \in Procs, name \in ProgramNames : ApplyAlloc(p, name)
    \/ \E p \in Procs : ApplyInsert(p)
    \/ \E p \in Procs, pk \in 1..MaxApps : RefreshRead(p, pk)
    \/ \E p \in Procs : RefreshAlloc(p)
    \/ \E p \in Procs : RefreshSave(p)
    \/ \E p \in Procs : ReseqSelect(p)
    \/ \E p \in Procs : ReseqReset(p)
    \/ \E p \in Procs : ReseqAssign(p)
    \/ \E p \in Procs : DeadlockAbort(p)

\* the next statement of worker p's request, or the database ending its
\* transaction
Continue(p) ==
    \/ ApplyInsert(p)
    \/ RefreshAlloc(p)
    \/ RefreshSave(p)
    \/ ReseqReset(p)
    \/ ReseqAssign(p)
    \/ DeadlockAbort(p)

\* every worker runs: a request whose next statement can execute executes it
LockSpec == Init /\ [][LockNext]_vars /\ \A p \in Procs : WF_vars(Continue(p))

\* ------------------------------------------------------------------------
\* The helper functions called on their own: key derivation, allocation and
\* the placeholder, on inputs the handlers can pass them
\* ------------------------------------------------------------------------
\* programme names as typed: optional blanks, a leading token in several
\* spellings, a space, a tab or nothing after it, and a programme title
Leads == { <<>>, <<" ">> }

LevelTokens ==
    { <<>>,
      <<"K","G">>,
      <<"k","g">>,
      <<"L","P">>,
      <<"L","p">>,
      <<"U","P">>,
      <<"H","S">>,
      <<"h","s">>,
      <<"L","K","G">>,
      <<"U","K","G">>,
      <<"u","k","g">>,
      <<"X","I">>,
      <<"K">> }

Separators == { <<>>, <<" ">>, <<"\t">> }

Titles ==
    { <<>>,
      <<"Q","u","i","z">>,
      <<"D","a","n","c","e">>,
      <<"M","u","s","i","c">>,
      <<"D","r","a","w","i","n","g">>,
      <<"E","l","o","c","u","t","i","o","n">>,
      <<"F","a","n","c","y"," ","D","r","e","s","s">>,
      <<"G","r","o","u","p"," ","S","o","n","g">>,
      <<"g","r","o","u","p"," ","s","i","n","g","i","n","g">>,
      <<"F","o","l","k"," ","D","a","n","c","e">>,
      <<"C","i","n","e","m","a","t","i","c"," ","D","a","n","c","e">>,
      <<"c","i","n","e","m","a"," ","d","a","n","c","e">>,
      <<"F","O","L","K"," ","D","A","N","C","E">>,
      <<"F","o","l","k"," ","M","u","s","i","c">>,
      <<"M","u","s","i","c"," ","D","a","n","c","e">>,
      <<"F","a","n","c","y"," ","D","a","n","c","e">>,
      <<"F","o","l","k"," ","C","i","n","e","m","a","t","i","c"," ","D","a","n","c","e">>,
      <<"E","l","o","c","u","t","i","o","n"," ","D","a","n","c","e">>,
      <<"D","r","a","w","i","n","g"," ","M","u","s","i","c">> }

NameInputs ==
    {None} \cup
    {a \o b \o c \o d \o e : a \in Leads, b \in LevelTokens, c \in Separators,
                               d \in Titles, e \in Leads}

\* programme names an allocation is called with (apply strips the name it posts)
AllocNames == { <<"L","P"," ","F","o","l","k"," ","D","a","n","c","e">>,
                <<"H","S"," ","M","u","s","i","c">>,
                <<"Q","u","i","z">> }

\* RegisterCounter.current is a PositiveIntegerField: values around the
\* changes of the number of digits
CounterInputs == {0, 1, 8, 9, 98, 99, 998, 999, 1000}

\* Application.pk is a BigAutoField
PkInputs == {1, 42, 9999999, 10000000}

CallInit ==
    /\ apps = <<>>
    /\ counters = <<>>
    /\ nextPk = 1
    /\ now = 0
    /\ pc = [p \in Procs |-> "idle"]
    /\ loc = [p \in Procs |-> NoLoc]
    /\ lockC = [p \in Procs |-> {}]
    /\ lockA = [p \in Procs |-> {}]
    /\ result = [p \in Procs |-> <<"none", "none">>]
    /\ started = 0
    /\ onlyApply = TRUE
    /\ issued = {}
    /\ issuedA = {}
    /\ dirty = [p \in Procs |-> FALSE]
    /\ lastReseq = <<>>
    /\ call \in {[fn |-> "key", arg |-> n, base |-> 0, counter |-> 0, ret |-> <<>>] : n \in NameInputs}
          \cup {[fn |-> "alloc", arg |-> n, base |-> v, counter |-> v, ret |-> <<>>] :
                    n \in AllocNames, v \in CounterInputs}
          \cup {[fn |-> "tmp", arg |-> pk, base |-> 0, counter |-> 0, ret |-> <<>>] : pk \in PkInputs}
    /\ SiteInit

\* level = cls.level_for_program(program_name); prefix = cls.prefix_for_program(program_name)
DeriveKey ==
    /\ call.fn = "key"
    /\ call.ret = <<>>
    /\ call' = [call EXCEPT !.ret = <<KeyFor(call.arg)>>]
    /\ UNCHANGED <<base, hist, site>>

\* Application.next_register_no(program_name), twice in a row on one counter
Allocate ==
    /\ call.fn = "alloc"
    /\ Len(call.ret) < 2
    /\ LET n == next_register_no(KeyFor(call.arg), call.counter) IN
       call' = [call EXCEPT !.counter = n.current, !.ret = Append(call.ret, n.regno)]
    /\ UNCHANGED <<base, hist, site>>

\* a.register_no = f"TMP{a.pk:07d}"
Placeholder ==
    /\ call.fn = "tmp"
    /\ call.ret = <<>>
    /\ call' = [call EXCEPT !.ret = <<TempRegisterNo(call.arg)>>]
    /\ UNCHANGED <<base, hist, site>>

CallNext == DeriveKey \/ Allocate \/ Placeholder

CallSpec == CallInit /\ [][CallNext]_vars

\* ========================================================================
\* The admin screens and the submission form (views.py), the requests served
\* one at a time: each handler runs from its first statement to its response
\* ========================================================================
MaxSiteRequests == 4   \* requests served in one behaviour of the site
MaxProgrammes == 1     \* Programme rows ever created
MaxSchools == 2        \* School rows ever created
MaxBanners == 1        \* Banner rows ever created

\* ------------------------------------------------------------------------
\* Posted values are strings; a field that was not posted is None
\* ------------------------------------------------------------------------
DigitChars == <<"0","1","2","3","4","5","6","7","8","9">>

IsDigit(c) == \E i \in 1..10 : DigitChars[i] = c

DigitValue(c) == (CHOOSE i \in 1..10 : DigitChars[i] = c) - 1

RECURSIVE Number(_)
Number(ds) ==
    IF ds = <<>> THEN 0
    ELSE 10 * Number(SubSeq(ds, 1, Len(ds) - 1)) + DigitValue(ds[Len(ds)])

\* int(s) for a string: blanks around it dropped, an optional sign, decimal
\* digits; anything else raises ValueError (ok = FALSE)
int(s) ==
    LET t == Strip(s)
        signed == t # <<>> /\ Head(t) \in {"-", "+"}
        ds == IF signed THEN Tail(t) ELSE t
    IN IF ds # <<>> /\ \A i \in 1..Len(ds) : IsDigit(ds[i])
       THEN [ok |-> TRUE,
             value |-> IF signed /\ Head(t) = "-" THEN 0 - Number(ds) ELSE Number(ds)]
       ELSE [ok |-> FALSE, value |-> 0]

\* int(v or d): the default d when v is None or ""
IntOr(v, d) == IF v = None \/ v = <<>> THEN [ok |-> TRUE, value |-> d] ELSE int(v)

max(a, b) == IF a >= b THEN a ELSE b

min(a, b) == IF a <= b THEN a ELSE b

\* a floor that is missing: min(hi, n)
clamp_without_floor(n, lo, hi) == min(hi, n)

\* def _clamp(n, lo, hi): return max(lo, min(hi, n))
_clamp(n, lo, hi) == max(lo, min(hi, n))

\* index of the first " " of s, 0 when there is none
RECURSIVE FirstSpace(_, _)
FirstSpace(s, i) ==
    IF i > Len(s) THEN 0 ELSE IF s[i] = " " THEN i ELSE FirstSpace(s, i + 1)

\* "KG Dance" -> ("KG", "Dance"); a name without a space -> ("", name)
_split_program_name(program_name) ==
    LET s == Strip(OrEmpty(program_name))
        i == FirstSpace(s, 1)
    IN IF s = <<>> THEN << <<>>, <<>> >>
       ELSE IF i > 0
            THEN <<Strip(SubSeq(s, 1, i - 1)), Strip(SubSeq(s, i + 1, Len(s)))>>
            ELSE << <<>>, s >>

\* .first() of a Programme queryset: Meta.ordering = ["order", "id"], every
\* row here with the same order
first(pks) == IF pks = {} THEN 0 ELSE CHOOSE pk \in pks : \A x \in pks : pk <= x

\* the Programme row _team_bounds_for_program looks up: category and name,
\* then the legacy LKG/UKG as KG, then the whole programme name as name
MatchingProgramme(program_name) ==
    LET cat == _split_program_name(program_name)[1]
        nm == _split_program_name(program_name)[2]
        exact == {pk \in DOMAIN programmes :
                     programmes[pk].category = cat /\ programmes[pk].name = nm}
        legacy == {pk \in DOMAIN programmes :
                     programmes[pk].category = <<"K","G">> /\ programmes[pk].name = nm}
        byName == {pk \in DOMAIN programmes : programmes[pk].name = program_name}
        p1 == IF cat # <<>> /\ nm # <<>> THEN first(exact) ELSE 0
        p2 == IF cat # <<>> /\ nm # <<>> /\ p1 = 0
                 /\ cat \in {<<"L","K","G">>, <<"U","K","G">>}
              THEN first(legacy) ELSE p1
    IN IF p2 # 0 THEN p2 ELSE first(byName)

\* lo = max(1, int(p.team_min or 1)); hi = min(5, max(lo, int(p.team_max or lo)));
\* (1, 5) without a matching programme
_team_bounds_for_program(program_name) ==
    LET p == MatchingProgramme(program_name) IN
    IF p # 0
    THEN LET lo == max(1, IF programmes[p].team_min = 0 THEN 1
                          ELSE programmes[p].team_min)
         IN [lo |-> lo,
             hi |-> min(5, max(lo, IF programmes[p].team_max = 0 THEN lo
                                   ELSE programmes[p].team_max))]
    ELSE [lo |-> 1, hi |-> 5]

\* ------------------------------------------------------------------------
\* A request and its response
\* ------------------------------------------------------------------------
\* the tables as one record, for a handler to say what it stores
Tables ==
    [apps |-> apps, counters |-> counters, nextPk |-> nextPk, now |-> now,
     schools |-> schools, programmes |-> programmes, banners |-> banners,
     details |-> details, nextId |-> nextId]

Store(t) ==
    /\ apps' = t.apps
    /\ counters' = t.counters
    /\ nextPk' = t.nextPk
    /\ now' = t.now
    /\ schools' = t.schools
    /\ programmes' = t.programmes
    /\ banners' = t.banners
    /\ details' = t.details
    /\ nextId' = t.nextId

\* browser c's request to `handler` is answered: what became of it and the
\* Application row it stored (0: none)
\* the server takes a request when it serves no other
Open ==
    /\ \A p \in Procs : pc[p] = "idle"
    /\ started < MaxSiteRequests

ServeWith(c, handler, outcome, pk, args) ==
    /\ started' = started + 1
    /\ req' = [client |-> c, handler |-> handler, outcome |-> outcome, pk |-> pk,
               args |-> args]
    /\ UNCHANGED <<pc, loc, lockC, lockA, result, hist, call>>

Serve(c, handler, outcome, pk) == ServeWith(c, handler, outcome, pk, <<>>)

\* the response of a handler that leaves the session alone
Respond(c, handler, outcome, pk, t) ==
    /\ Serve(c, handler, outcome, pk)
    /\ Store(t)
    /\ UNCHANGED session

\* return redirect("eventapp:adminlogin")
Redirect(c, handler) == Respond(c, handler, "login", 0, Tables)

\* a login check that lets every session through
login_not_required(c) == TRUE

\* def _require_login(request): return bool(request.session.get("is_logged_in"))
_require_login(c) == session[c]

\* ------------------------------------------------------------------------
\* adminlogin_view and logout_view
\* ------------------------------------------------------------------------
Kseadmin == <<"K","s","e","a","d","m","i","n">>

\* if username == "Kseadmin" and password == "Kseadmin":
\*     request.session["is_logged_in"] = True
adminlogin_view(c, username, password) ==
    /\ Open
    /\ IF session[c]
       THEN /\ ServeWith(c, "adminlogin_view", "dashboard", 0, <<username, password>>)
            /\ UNCHANGED session
       ELSE IF Strip(OrEmpty(username)) = Kseadmin /\ Strip(OrEmpty(password)) = Kseadmin
       THEN /\ ServeWith(c, "adminlogin_view", "ok", 0, <<username, password>>)
            /\ session' = [session EXCEPT ![c] = TRUE]
       ELSE /\ ServeWith(c, "adminlogin_view", "invalid", 0, <<username, password>>)
            /\ UNCHANGED session
    /\ Store(Tables)

\* request.session.flush()
logout_view(c) ==
    /\ Open
    /\ Serve(c, "logout_view", "ok", 0)
    /\ session' = [session EXCEPT ![c] = FALSE]
    /\ Store(Tables)

\* ------------------------------------------------------------------------
\* apply, application_edit, application_delete
\* ------------------------------------------------------------------------
\* team_size_i = _clamp(int(team_size or lo), lo, hi)
TeamSize(program_name, team_size) ==
    LET b == _team_bounds_for_program(program_name)
        n == IntOr(Strip(OrEmpty(team_size)), b.lo)
    IN [ok |-> n.ok, size |-> _clamp(n.value, b.lo, b.hi)]

\* def _digits_only(s): return re.sub(r"\D+", "", s or "")
_digits_only(s) == SelectSeq(OrEmpty(s), IsDigit)

\* def _validate_mobile_10(s): return bool(re.fullmatch(r"\d{10}", s or ""))
_validate_mobile_10(s) ==
    Len(OrEmpty(s)) = 10 /\ \A i \in 1..Len(OrEmpty(s)) : IsDigit(s[i])

\* the fields members-i-name, members-i-mobile, members-i-alt of a request
\* (members-i-section, kept as posted, is left out)
NotPosted == [name |-> None, mobile |-> None, alt |-> None]

Field(posted, i) == IF i \in 1..Len(posted) THEN posted[i] ELSE NotPosted

\* one pass of the loop over the members: the record appended, or the error
\* that ends the request
MemberRecord(f) ==
    LET n == Strip(OrEmpty(f.name))
        m_raw == Strip(OrEmpty(f.mobile))
        m == _digits_only(m_raw)
        a == _digits_only(Strip(OrEmpty(f.alt)))
    IN [ok |-> /\ n # <<>>
               /\ m_raw # <<>>
               /\ _validate_mobile_10(m)
               /\ (a # <<>> => _validate_mobile_10(a)),
        rec |-> [name |-> n, mobile |-> m, alt |-> a]]

\* for i in range(team_size_i): ... members.append(rec)
BuildMembers(posted, size) ==
    [ok |-> \A i \in 1..size : MemberRecord(Field(posted, i)).ok,
     members |-> [i \in 1..size |-> MemberRecord(Field(posted, i)).rec]]

\* a form that is stored whatever it holds
validation_skipped(method, name, school_id, ts, built) == TRUE

\* the checks of apply before its transaction: the method, the programme
\* name, the team size, the school and every member
Validated(method, name, school_id, ts, built) ==
    /\ method = "POST"
    /\ name # <<>>
    /\ ts.ok
    /\ school_id \in DOMAIN schools
    /\ built.ok

\* the response to a submission, which is kept with it
RespondTo(c, handler, outcome, pk, args, t) ==
    /\ ServeWith(c, handler, outcome, pk, args)
    /\ Store(t)
    /\ UNCHANGED session

\* apply: the posted form is the method, the programme name, the school,
\* the team size and the members' fields; school_id 0 is a form without one
apply(c, method, program_name, school_id, team_size, posted) ==
    /\ Open
    /\ \E args \in {<<method, program_name, school_id, team_size, posted>>} :
       \E name \in {Strip(OrEmpty(program_name))} :
       \E ts \in {TeamSize(name, team_size)} :
       \E built \in {BuildMembers(posted, ts.size)} :
       \E key \in {KeyFor(name)} :
       \E n \in {next_register_no(key, get_or_create(key))} :
          /\ nextPk <= MaxApps
          /\ get_or_create(key) < MaxCounter
          /\ IF ~Validated(method, name, school_id, ts, built)
             THEN RespondTo(c, "apply", "error", 0, args, Tables)
             ELSE IF built.members = <<>>
             THEN \* name=members[0]["name"]: IndexError
                  RespondTo(c, "apply", "IndexError", 0, args, Tables)
             ELSE IF ~UniqueOK(apps, n.regno, 0)
             THEN \* IntegrityError: caught, the transaction rolled back
                  RespondTo(c, "apply", "error", 0, args, Tables)
             ELSE \E t \in Clock :
                     RespondTo(c, "apply", "ok", nextPk, args,
                         [Tables EXCEPT
                             !.apps = Put(apps, nextPk, [program_name |-> name,
                                                         register_no |-> n.regno,
                                                         submitted_at |-> t]),
                             !.details = Put(details, nextPk,
                                             [school |-> school_id,
                                              team_size |-> ts.size,
                                              members |-> built.members,
                                              name |-> built.members[1].name,
                                              mobile |-> built.members[1].mobile,
                                              is_winner |-> FALSE,
                                              winner_rank |-> <<>>]),
                             !.counters = Put(counters, key, n.current),
                             !.nextPk = nextPk + 1,
                             !.now = t])

\* application_edit (POST): the row is loaded, changed and saved whole
application_edit(c, pk, program_name, school_id, team_size, posted) ==
    /\ Open
    /\ IF ~_require_login(c) THEN Redirect(c, "application_edit")
       ELSE \E name \in {Strip(OrEmpty(program_name))} :
            \E ts \in {TeamSize(name, team_size)} :
            \E built \in {BuildMembers(posted, ts.size)} :
               IF pk \notin DOMAIN apps \/ school_id \notin DOMAIN schools
                  \/ ~ts.ok \/ ~built.ok
               THEN Respond(c, "application_edit", "error", 0, Tables)
               ELSE IF built.members = <<>>
               THEN \* app.name = members[0]["name"]: IndexError
                    Respond(c, "application_edit", "IndexError", 0, Tables)
               ELSE IF name = <<>>
               THEN Respond(c, "application_edit", "error", 0, Tables)
               ELSE Respond(c, "application_edit", "ok", pk,
                        [Tables EXCEPT
                            !.apps = [apps EXCEPT ![pk].program_name = name],
                            !.details = [details EXCEPT
                                            ![pk].school = school_id,
                                            ![pk].team_size = ts.size,
                                            ![pk].members = built.members,
                                            ![pk].name = built.members[1].name,
                                            ![pk].mobile = built.members[1].mobile]])

\* app = get_object_or_404(Application, pk=pk); app.delete()
application_delete(c, pk) ==
    /\ Open
    /\ IF ~_require_login(c) THEN Redirect(c, "application_delete")
       ELSE IF pk \notin DOMAIN apps
       THEN Respond(c, "application_delete", "error", 0, Tables)
       ELSE Respond(c, "application_delete", "ok", 0,
                [Tables EXCEPT !.apps = Drop(apps, pk), !.details = Drop(details, pk)])

\* ------------------------------------------------------------------------
\* application_refresh_register_no, applications_refresh_register_all
\* ------------------------------------------------------------------------
application_refresh_register_no(c, pk) ==
    /\ Open
    /\ IF ~_require_login(c) THEN Redirect(c, "application_refresh_register_no")
       ELSE IF pk \notin DOMAIN apps
       THEN Respond(c, "application_refresh_register_no", "error", 0, Tables)
       ELSE LET key == KeyFor(apps[pk].program_name)
                n == next_register_no(key, get_or_create(key))
            IN /\ get_or_create(key) < MaxCounter
               /\ IF UniqueOK(apps, n.regno, pk)
                  THEN Respond(c, "application_refresh_register_no", "ok", 0,
                           [Tables EXCEPT
                               !.apps = [apps EXCEPT ![pk].register_no = n.regno],
                               !.counters = Put(counters, key, n.current)])
                  ELSE \* IntegrityError: caught, the transaction rolled back
                       Respond(c, "application_refresh_register_no", "error", 0, Tables)

\* the four steps in one transaction: placeholders, counters to 0, the final
\* numbers in submission order, the counters persisted
applications_refresh_register_all(c) ==
    /\ Open
    /\ IF ~_require_login(c) THEN Redirect(c, "applications_refresh_register_all")
       ELSE LET order == Ordered(apps, DOMAIN apps)
                list == [i \in 1..Len(order) |->
                            [pk |-> order[i], program_name |-> apps[order[i]].program_name]]
                plan == Walk(list, 1, <<>>, <<>>)
                tmp == WriteAll(apps, TmpWrites(list))
                fin == IF tmp.ok THEN WriteAll(tmp.table, plan.writes) ELSE tmp
            IN IF fin.ok
               THEN Respond(c, "applications_refresh_register_all", "ok", 0,
                        [Tables EXCEPT
                            !.apps = fin.table,
                            !.counters = [k \in (DOMAIN counters) \cup (DOMAIN plan.counts) |->
                                             IF k \in DOMAIN plan.counts
                                             THEN plan.counts[k] ELSE 0]])
               ELSE \* IntegrityError, not caught: atomic() rolls everything back
                    Respond(c, "applications_refresh_register_all", "error", 0, Tables)

\* ------------------------------------------------------------------------
\* Winners: application_winner_update, winners_create, winners_update,
\* winners_delete
\* ------------------------------------------------------------------------
On == <<"o","n">>

\* winner_rank is a PositiveSmallIntegerField, null=True: <<>> is NULL, <<n>>
\* the rank n; int() of the posted text may raise ValueError, and the column
\* refuses a negative number
Rank(raw) ==
    IF raw = None \/ raw = <<>> THEN [ok |-> TRUE, rank |-> <<>>]
    ELSE IF int(raw).ok /\ int(raw).value >= 0
         THEN [ok |-> TRUE, rank |-> <<int(raw).value>>]
         ELSE [ok |-> FALSE, rank |-> <<>>]

\* app.save(update_fields=["is_winner", "winner_rank", "winner_note"])
application_winner_update(c, pk, is_winner, winner_rank) ==
    /\ Open
    /\ IF ~session[c] THEN Redirect(c, "application_winner_update")
       ELSE IF pk \notin DOMAIN apps \/ ~Rank(winner_rank).ok
       THEN Respond(c, "application_winner_update", "error", 0, Tables)
       ELSE Respond(c, "application_winner_update", "ok", 0,
                [Tables EXCEPT !.details =
                    [details EXCEPT ![pk].is_winner = (is_winner = On),
                                    ![pk].winner_rank = Rank(winner_rank).rank]])

\* app = Application.objects.filter(register_no__iexact=reg).first(), the
\* number posted as the site prints it
winners_create(c, register_no, winner_rank) ==
    /\ Open
    /\ IF ~session[c] THEN Redirect(c, "winners_create")
       ELSE LET found == {pk \in DOMAIN apps : apps[pk].register_no = register_no}
                pk == first(found)
                r == Rank(Strip(OrEmpty(winner_rank)))
            IN IF register_no = <<>> \/ pk = 0
                  \/ (int(Strip(OrEmpty(winner_rank))).ok /\ ~r.ok)
               THEN Respond(c, "winners_create", "error", 0, Tables)
               ELSE Respond(c, "winners_create", "ok", 0,
                        [Tables EXCEPT !.details =
                            [details EXCEPT ![pk].is_winner = TRUE,
                                            \* except ValueError: winner_rank = None
                                            ![pk].winner_rank = r.rank]])

winners_update(c, pk, winner_rank) ==
    /\ Open
    /\ IF ~session[c] THEN Redirect(c, "winners_update")
       ELSE LET r == Rank(Strip(OrEmpty(winner_rank))) IN
            IF pk \notin DOMAIN apps
            THEN Respond(c, "winners_update", "error", 0, Tables)
            ELSE IF ~details[pk].is_winner
                    \/ (int(Strip(OrEmpty(winner_rank))).ok /\ ~r.ok)
            THEN Respond(c, "winners_update", "error", 0, Tables)
            ELSE Respond(c, "winners_update", "ok", 0,
                     [Tables EXCEPT !.details = [details EXCEPT ![pk].winner_rank = r.rank]])

winners_delete(c, pk) ==
    /\ Open
    /\ IF ~session[c] THEN Redirect(c, "winners_delete")
       ELSE IF pk \notin DOMAIN apps
       THEN Respond(c, "winners_delete", "error", 0, Tables)
       ELSE Respond(c, "winners_delete", "ok", 0,
                [Tables EXCEPT !.details = [details EXCEPT ![pk].is_winner = FALSE,
                                                           ![pk].winner_rank = <<>>]])

\* ------------------------------------------------------------------------
\* Schools: school_create, school_update, school_delete, school_bulk_add
\* ------------------------------------------------------------------------
SchoolNamed(table, name) == {pk \in DOMAIN table : table[pk] = name}

\* School.objects.get_or_create(name=name) for each line that is not blank
RECURSIVE AddSchools(_, _, _)
AddSchools(table, next, names) ==
    IF names = <<>> THEN [schools |-> table, next |-> next]
    ELSE LET name == Strip(Head(names)) IN
         IF name = <<>> \/ SchoolNamed(table, name) # {}
         THEN AddSchools(table, next, Tail(names))
         ELSE AddSchools(Put(table, next, name), next + 1, Tail(names))

school_create(c, name) ==
    /\ Open
    /\ IF ~_require_login(c) THEN Redirect(c, "school_create")
       ELSE LET added == AddSchools(schools, nextId.school, <<OrEmpty(name)>>) IN
            /\ added.next <= MaxSchools + 1
            /\ IF Strip(OrEmpty(name)) = <<>>
               THEN Respond(c, "school_create", "error", 0, Tables)
               ELSE Respond(c, "school_create", "ok", 0,
                        [Tables EXCEPT !.schools = added.schools,
                                       !.nextId = [nextId EXCEPT !.school = added.next]])

\* school.name = name; school.save(update_fields=["name"]): name is unique
school_update(c, pk, name) ==
    /\ Open
    /\ IF ~_require_login(c) THEN Redirect(c, "school_update")
       ELSE IF pk \notin DOMAIN schools \/ Strip(OrEmpty(name)) = <<>>
               \/ SchoolNamed(schools, Strip(OrEmpty(name))) \ {pk} # {}
       THEN Respond(c, "school_update", "error", 0, Tables)
       ELSE Respond(c, "school_update", "ok", 0,
                [Tables EXCEPT !.schools = [schools EXCEPT ![pk] = Strip(OrEmpty(name))]])

\* a school that no application keeps from deletion
not_protected(pk) == FALSE

\* school = models.ForeignKey(School, on_delete=models.PROTECT): deleting a
\* school that an application references raises ProtectedError
Protected(pk) == \E a \in DOMAIN details : details[a].school = pk

\* school.delete() inside try/except: the error is reported, nothing changes
school_delete(c, pk) ==
    /\ Open
    /\ IF ~_require_login(c) THEN RespondTo(c, "school_delete", "login", 0, <<pk>>, Tables)
       ELSE IF pk \notin DOMAIN schools
       THEN \* get_object_or_404
            RespondTo(c, "school_delete", "404", 0, <<pk>>, Tables)
       ELSE IF Protected(pk)
       THEN RespondTo(c, "school_delete", "error", 0, <<pk>>, Tables)
       ELSE RespondTo(c, "school_delete", "ok", 0, <<pk>>,
                [Tables EXCEPT !.schools = Drop(schools, pk)])

\* names = [n.strip() for n in raw.splitlines() if n.strip()]
school_bulk_add(c, bulk_names) ==
    /\ Open
    /\ IF ~_require_login(c) THEN Redirect(c, "school_bulk_add")
       ELSE LET added == AddSchools(schools, nextId.school, bulk_names) IN
            /\ added.next <= MaxSchools + 1
            /\ Respond(c, "school_bulk_add", "ok", 0,
                   [Tables EXCEPT !.schools = added.schools,
                                  !.nextId = [nextId EXCEPT !.school = added.next]])

\* ------------------------------------------------------------------------
\* Programmes: program_create, program_update, program_delete,
\* program_edit_page
\* ------------------------------------------------------------------------
\* try: int(v or d) except ValueError: d
IntOrElse(v, d) == IF IntOr(v, d).ok THEN IntOr(v, d).value ELSE d

\* team_min = max(1, int(POST team_min or 1)); team_max = max(team_min, min(8, int(POST team_max or 8)))
program_create(c, category, name, team_min, team_max) ==
    /\ Open
    /\ IF ~_require_login(c) THEN Redirect(c, "program_create")
       ELSE LET tmin == max(1, IntOrElse(team_min, 1))
                tmax == max(tmin, min(8, IntOrElse(team_max, 8)))
            IN /\ nextId.programme <= MaxProgrammes
               /\ IF Strip(OrEmpty(category)) = <<>> \/ Strip(OrEmpty(name)) = <<>>
                  THEN Respond(c, "program_create", "error", 0, Tables)
                  ELSE Respond(c, "program_create", "ok", 0,
                           [Tables EXCEPT
                               !.programmes = Put(programmes, nextId.programme,
                                                  [category |-> Strip(OrEmpty(category)),
                                                   name |-> Strip(OrEmpty(name)),
                                                   team_min |-> tmin,
                                                   team_max |-> tmax]),
                               !.nextId = [nextId EXCEPT !.programme = nextId.programme + 1]])

\* team_min and team_max are each changed only when posted and numeric:
\* program.team_min = max(1, int(tmn));
\* program.team_max = max(program.team_min, min(8, int(tmx)))
program_update(c, pk, category, name, team_min, team_max) ==
    /\ Open
    /\ IF ~_require_login(c) THEN Redirect(c, "program_update")
       ELSE IF pk \notin DOMAIN programmes
       THEN Respond(c, "program_update", "error", 0, Tables)
       ELSE LET tmin == IF team_min \notin {None, <<>>} /\ int(team_min).ok
                        THEN max(1, int(team_min).value)
                        ELSE programmes[pk].team_min
                tmax == IF team_max \notin {None, <<>>} /\ int(team_max).ok
                        THEN max(tmin, min(8, int(team_max).value))
                        ELSE programmes[pk].team_max
            IN IF Strip(OrEmpty(category)) = <<>> \/ Strip(OrEmpty(name)) = <<>>
               THEN Respond(c, "program_update", "error", 0, Tables)
               ELSE Respond(c, "program_update", "ok", 0,
                        [Tables EXCEPT !.programmes =
                            [programmes EXCEPT ![pk] = [category |-> Strip(OrEmpty(category)),
                                                        name |-> Strip(OrEmpty(name)),
                                                        team_min |-> tmin,
                                                        team_max |-> tmax]]])

program_delete(c, pk) ==
    /\ Open
    /\ IF ~_require_login(c) THEN Redirect(c, "program_delete")
       ELSE IF pk \notin DOMAIN programmes
       THEN Respond(c, "program_delete", "error", 0, Tables)
       ELSE Respond(c, "program_delete", "ok", 0,
                [Tables EXCEPT !.programmes = Drop(programmes, pk)])

\* p.team_min = max(1, int(POST team_min or p.team_min));
\* p.team_max = max(p.team_min, min(8, int(POST team_max or p.team_max or 8)))
program_edit_page(c, pk, category, name, team_min, team_max) ==
    /\ Open
    /\ IF ~_require_login(c) THEN Redirect(c, "program_edit_page")
       ELSE IF pk \notin DOMAIN programmes
       THEN Respond(c, "program_edit_page", "error", 0, Tables)
       ELSE LET p == programmes[pk]
                tmin == IF IntOr(team_min, p.team_min).ok
                        THEN max(1, IntOr(team_min, p.team_min).value)
                        ELSE p.team_min
                req_max == IntOr(team_max, IF p.team_max = 0 THEN 8 ELSE p.team_max)
                tmax == IF req_max.ok THEN max(tmin, min(8, req_max.value)) ELSE p.team_max
            IN IF Strip(OrEmpty(category)) = <<>> \/ Strip(OrEmpty(name)) = <<>>
               THEN Respond(c, "program_edit_page", "error", 0, Tables)
               ELSE Respond(c, "program_edit_page", "ok", 0,
                        [Tables EXCEPT !.programmes =
                            [programmes EXCEPT ![pk] = [category |-> Strip(OrEmpty(category)),
                                                        name |-> Strip(OrEmpty(name)),
                                                        team_min |-> tmin,
                                                        team_max |-> tmax]]])

\* ------------------------------------------------------------------------
\* Banners: banner_create, banner_update, banner_delete (order, height_px and
\* image posted with their defaults)
\* ------------------------------------------------------------------------
banner_create(c, title, is_active) ==
    /\ Open
    /\ IF ~session[c] THEN Redirect(c, "banner_create")
       ELSE /\ nextId.banner <= MaxBanners
            /\ IF Strip(OrEmpty(title)) = <<>>
               THEN Respond(c, "banner_create", "error", 0, Tables)
               ELSE Respond(c, "banner_create", "ok", 0,
                        [Tables EXCEPT
                            !.banners = Put(banners, nextId.banner,
                                            [title |-> Strip(OrEmpty(title)),
                                             is_active |-> (is_active = On)]),
                            !.nextId = [nextId EXCEPT !.banner = nextId.banner + 1]])

\* b.title = (POST title or "").strip(); b.is_active = POST is_active == "on"; b.save()
banner_update(c, pk, title, is_active) ==
    /\ Open
    /\ IF ~session[c] THEN Redirect(c, "banner_update")
       ELSE IF pk \notin DOMAIN banners
       THEN Respond(c, "banner_update", "error", 0, Tables)
       ELSE Respond(c, "banner_update", "ok", 0,
                [Tables EXCEPT !.banners =
                    [banners EXCEPT ![pk] = [title |-> Strip(OrEmpty(title)),
                                             is_active |-> (is_active = On)]]])

banner_delete(c, pk) ==
    /\ Open
    /\ IF ~session[c] THEN Redirect(c, "banner_delete")
       ELSE IF pk \notin DOMAIN banners
       THEN Respond(c, "banner_delete", "error", 0, Tables)
       ELSE Respond(c, "banner_delete", "ok", 0, [Tables EXCEPT !.banners = Drop(banners, pk)])

\* ------------------------------------------------------------------------
\* The programme screens and the team size of a submission. browser1 is the
\* administrator and has logged in, the one request served so far; the
\* School table holds one school
\* ------------------------------------------------------------------------
FolkDance == <<"F","o","l","k"," ","D","a","n","c","e">>

\* categories and names typed into the programme forms
PostedCategories == { <<"L","P">>, <<"K","G">> }

PostedTitles == { FolkDance }

\* team_min and team_max as posted: missing, below 1, small, above 5, above 8,
\* not a number
PostedMins == { None, <<"0">>, <<"3">>, <<"6">>, <<"x">> }

PostedMaxes == { None, <<"2">>, <<"5">>, <<"9">>, <<"x">> }

\* programme names the submission form posts: category and name, a legacy
\* category, the name alone
PostedProgramNames ==
    { <<"L","P"," ">> \o FolkDance, <<"U","K","G"," ">> \o FolkDance, FolkDance }

\* team_size as posted
PostedSizes == { None, <<"0">>, <<"4">>, <<"7">> }

\* a member's fields filled in as the form asks
Mobile == <<"9","8","7","6","5","4","3","2","1","0">>

Member == [name |-> <<"A","n","u">>, mobile |-> Mobile, alt |-> None]

\* members posted complete: the first one only, or eight
PostedMembers == { <<Member>>, [i \in 1..8 |-> Member] }

TeamInit ==
    /\ apps = <<>>
    /\ counters = <<>>
    /\ nextPk = 1
    /\ now = 0
    /\ pc = [p \in Procs |-> "idle"]
    /\ loc = [p \in Procs |-> NoLoc]
    /\ lockC = [p \in Procs |-> {}]
    /\ lockA = [p \in Procs |-> {}]
    /\ result = [p \in Procs |-> <<"none", "none">>]
    /\ started = 1
    /\ onlyApply = TRUE
    /\ issued = {}
    /\ issuedA = {}
    /\ dirty = [p \in Procs |-> FALSE]
    /\ lastReseq = <<>>
    /\ call = NoCall
    /\ session = [c \in Clients |-> c = "browser1"]
    /\ req = NoReq
    /\ schools = <<<<"A">>>>
    /\ programmes = <<>>
    /\ banners = <<>>
    /\ details = <<>>
    /\ nextId = [school |-> 2, programme |-> 1, banner |-> 1]

TeamNext ==
    \/ \E category \in PostedCategories, name \in PostedTitles,
          team_min \in PostedMins, team_max \in PostedMaxes :
          program_create("browser1", category, name, team_min, team_max)
    \/ \E pk \in 1..MaxProgrammes, category \in PostedCategories, name \in PostedTitles,
          team_min \in PostedMins, team_max \in PostedMaxes :
          program_update("browser1", pk, category, name, team_min, team_max)
    \/ \E pk \in 1..MaxProgrammes, category \in PostedCategories, name \in PostedTitles,
          team_min \in PostedMins, team_max \in PostedMaxes :
          program_edit_page("browser1", pk, category, name, team_min, team_max)
    \/ \E pk \in 1..MaxProgrammes : program_delete("browser1", pk)
    \/ \E program_name \in PostedProgramNames, team_size \in PostedSizes,
          posted \in PostedMembers :
          apply("browser2", "POST", program_name, 1, team_size, posted)
    \/ \E pk \in 1..MaxApps, program_name \in PostedProgramNames,
          team_size \in PostedSizes, posted \in PostedMembers :
          application_edit("browser1", pk, program_name, 1, team_size, posted)

TeamSpec == TeamInit /\ [][TeamNext]_vars

\* ------------------------------------------------------------------------
\* Submissions, edits, single refreshes and resequence-all runs one after the
\* other, from the same start
\* ------------------------------------------------------------------------
EditNext ==
    \/ \E program_name \in ProgramNames : apply("browser2", "POST", program_name, 1, None, <<Member>>)
    \/ \E pk \in 1..MaxApps, program_name \in ProgramNames :
          application_edit("browser1", pk, program_name, 1, None, <<Member>>)
    \/ \E pk \in 1..MaxApps : application_refresh_register_no("browser1", pk)
    \/ applications_refresh_register_all("browser1")

EditSpec == TeamInit /\ [][EditNext]_vars

\* ------------------------------------------------------------------------
\* The submission form, filled in well and badly, from the same start
\* ------------------------------------------------------------------------
Methods == {"GET", "POST"}

SubmittedNames ==
    { None, <<" ">>, <<" ","L","P"," ","F","o","l","k"," ","D","a","n","c","e"," ">> }

\* the stored school, no school, a school that does not exist
SubmittedSchools == {0, 1, 2}

SubmittedSizes == { None, <<"2">>, <<"x">> }

\* two good members; a second member without a name; no mobile; five
\* digits; ten digits with a dash; a short alternate mobile; a good alternate
SubmittedMembers ==
    { <<Member, Member>>,
      <<Member, [Member EXCEPT !.name = <<" ">>]>>,
      <<[Member EXCEPT !.mobile = None]>>,
      <<[Member EXCEPT !.mobile = <<"9","8","7","6","5">>]>>,
      <<[Member EXCEPT !.mobile = <<"9","8","7","6","5","-","4","3","2","1","0">>]>>,
      <<[Member EXCEPT !.alt = <<"1","2","3">>]>>,
      <<[Member EXCEPT !.alt = Mobile], Member>> }

SubmitNext ==
    \E method \in Methods, program_name \in SubmittedNames,
       school_id \in SubmittedSchools, team_size \in SubmittedSizes,
       posted \in SubmittedMembers :
       apply("browser2", method, program_name, school_id, team_size, posted)

\* the start of TeamInit after n requests
SiteStart(n) ==
    /\ apps = <<>>
    /\ counters = <<>>
    /\ nextPk = 1
    /\ now = 0
    /\ pc = [p \in Procs |-> "idle"]
    /\ loc = [p \in Procs |-> NoLoc]
    /\ lockC = [p \in Procs |-> {}]
    /\ lockA = [p \in Procs |-> {}]
    /\ result = [p \in Procs |-> <<"none", "none">>]
    /\ started = n
    /\ onlyApply = TRUE
    /\ issued = {}
    /\ issuedA = {}
    /\ dirty = [p \in Procs |-> FALSE]
    /\ lastReseq = <<>>
    /\ call = NoCall
    /\ session = [c \in Clients |-> c = "browser1"]
    /\ req = NoReq
    /\ schools = <<<<"A">>>>
    /\ programmes = <<>>
    /\ banners = <<>>
    /\ details = <<>>
    /\ nextId = [school |-> 2, programme |-> 1, banner |-> 1]

\* two requests left
SubmitInit == SiteStart(MaxSiteRequests - 2)

SubmitSpec == SubmitInit /\ [][SubmitNext]_vars

\* ------------------------------------------------------------------------
\* Every screen, requested by a logged-in browser or by one that is not
\* ------------------------------------------------------------------------
\* what is typed into the login form
PostedCredentials ==
    { <<Kseadmin, Kseadmin>>,
      <<<<" ">> \o Kseadmin, Kseadmin \o <<" ">>>>,
      <<Kseadmin, <<"k","s","e","a","d","m","i","n">>>>,
      <<<<"a","d","m","i","n">>, Kseadmin>>,
      <<Kseadmin, None>>,
      <<None, None>> }

PostedSchools == { <<"A">>, <<"B">> }

PostedRanks == { None, <<"1">> }

PostedFlags == { None, On }

AuthNext ==
    \/ \E c \in Clients, cred \in PostedCredentials : adminlogin_view(c, cred[1], cred[2])
    \/ \E c \in Clients : logout_view(c)
    \/ \E c \in Clients, program_name \in ProgramNames : apply(c, "POST", program_name, 1, None, <<Member>>)
    \/ \E c \in Clients, pk \in 1..MaxApps, program_name \in ProgramNames :
          application_edit(c, pk, program_name, 1, None, <<Member>>)
    \/ \E c \in Clients, pk \in 1..MaxApps : application_delete(c, pk)
    \/ \E c \in Clients, pk \in 1..MaxApps : application_refresh_register_no(c, pk)
    \/ \E c \in Clients : applications_refresh_register_all(c)
    \/ \E c \in Clients, pk \in 1..MaxApps, is_winner \in PostedFlags,
          winner_rank \in PostedRanks :
          application_winner_update(c, pk, is_winner, winner_rank)
    \/ \E c \in Clients, pk \in 1..MaxApps, winner_rank \in PostedRanks :
          winners_create(c, IF pk \in DOMAIN apps THEN apps[pk].register_no ELSE <<>>,
                         winner_rank)
    \/ \E c \in Clients, pk \in 1..MaxApps, winner_rank \in PostedRanks :
          winners_update(c, pk, winner_rank)
    \/ \E c \in Clients, pk \in 1..MaxApps : winners_delete(c, pk)
    \/ \E c \in Clients, name \in PostedSchools : school_create(c, name)
    \/ \E c \in Clients, pk \in 1..MaxSchools, name \in PostedSchools :
          school_update(c, pk, name)
    \/ \E c \in Clients, pk \in 1..MaxSchools : school_delete(c, pk)
    \/ \E c \in Clients : school_bulk_add(c, << <<"A">>, <<" ">>, <<"B">> >>)
    \/ \E c \in Clients, category \in PostedCategories :
          program_create(c, category, FolkDance, None, <<"5">>)
    \/ \E c \in Clients, pk \in 1..MaxProgrammes, category \in PostedCategories :
          program_update(c, pk, category, FolkDance, <<"3">>, None)
    \/ \E c \in Clients, pk \in 1..MaxProgrammes : program_delete(c, pk)
    \/ \E c \in Clients, pk \in 1..MaxProgrammes, category \in PostedCategories :
          program_edit_page(c, pk, category, FolkDance, None, <<"2">>)
    \/ \E c \in Clients, is_active \in PostedFlags :
          banner_create(c, <<"K","S","E">>, is_active)
    \/ \E c \in Clients, pk \in 1..MaxBanners, is_active \in PostedFlags :
          banner_update(c, pk, <<"K","S","E">>, is_active)
    \/ \E c \in Clients, pk \in 1..MaxBanners : banner_delete(c, pk)

AuthSpec == Init /\ [][AuthNext]_vars

\* ------------------------------------------------------------------------
\* Schools created, renamed and deleted while applications name them
\* ------------------------------------------------------------------------
SchoolNext ==
    \/ \E school_id \in 1..MaxSchools :
          apply("browser2", "POST", FolkDance, school_id, None, <<Member>>)
    \/ \E pk \in 1..MaxApps, school_id \in 1..MaxSchools :
          application_edit("browser1", pk, FolkDance, school_id, None, <<Member>>)
    \/ \E pk \in 1..MaxApps : application_delete("browser1", pk)
    \/ \E name \in PostedSchools : school_create("browser1", name)
    \/ \E pk \in 1..MaxSchools, name \in PostedSchools :
          school_update("browser1", pk, name)
    \/ \E pk \in 1..MaxSchools : school_delete("browser1", pk)
    \/ school_bulk_add("browser1", << <<"A">>, <<" ">>, <<"B">> >>)

\* four requests left
SchoolInit == SiteStart(0)

SchoolSpec == SchoolInit /\ [][SchoolNext]_vars

\* ========================================================================
\* Properties
\* ========================================================================
Keys == {KeyOf[n] : n \in ProgramNames}

\* the applications whose programme name derives key
AppsOf(key) == {pk \in DOMAIN apps : KeyOf[apps[pk].program_name] = key}

\* a step in which worker p leaves program point `at` and its request ends
Ends(p, at, outcome) ==
    /\ pc[p] \in at
    /\ pc'[p] = "idle"
    /\ result'[p][2] = outcome

AllocPoints == {"apply_insert", "refresh_save"}

\* C1: while submissions are the only requests that have committed anything,
\* starting from empty counters, the committed applications of every key K
\* hold exactly K001..K00N, N being their number: no duplicate and no gap,
\* whatever the interleaving of the submissions.
C1_SubmissionsGetConsecutiveNumbers ==
    onlyApply =>
        \A key \in Keys :
            {apps[pk].register_no : pk \in AppsOf(key)}
                = {FormatRegisterNo(key, i) : i \in 1..Cardinality(AppsOf(key))}

\* two submissions of one key have committed and a third is in its transaction
C1_Witness ==
    /\ onlyApply
    /\ \E p \in Procs :
          /\ pc[p] = "apply_insert"
          /\ Cardinality(AppsOf(loc[p].key)) >= 2

\* C2: in every committed state no two Application rows hold the same
\* register_no.
C2_RegisterNoUnique ==
    \A a, b \in DOMAIN apps : a # b => apps[a].register_no # apps[b].register_no

\* a write was refused by the unique index while several rows exist
C2_Witness ==
    /\ Cardinality(DOMAIN apps) >= 2
    /\ \E p \in Procs : result[p] \in {<<"apply", "error">>, <<"refresh", "error">>,
                                       <<"edit", "error">>}

\* C4: a submission or single refresh that fails after next_register_no has
\* incremented the counter leaves both tables as they were, the counter at the
\* value read before the attempt, and reports the failure; a request that does
\* not fail commits the counter and the application's number together.
C4_AllocationRollsBack ==
    [][\A p \in Procs :
         /\ Ends(p, AllocPoints, "error") =>
               /\ apps' = apps
               /\ counters' = counters
               /\ get_or_create(loc[p].key) = loc[p].current - 1
         /\ Ends(p, AllocPoints, "ok") =>
               /\ counters' = Put(counters, loc[p].key, loc[p].current)
               /\ \E pk \in DOMAIN apps' : apps'[pk].register_no = loc[p].regno]_vars

\* a submission has failed at its insert: the number it was given is held by
\* an application
C4_Witness ==
    \E p \in Procs :
        /\ result[p] = <<"apply", "error">>
        /\ \E key \in DOMAIN counters :
               ~UniqueOK(apps, FormatRegisterNo(key, counters[key] + 1), 0)

\* a single refresh has failed at its save
C4_WitnessRefresh == \E p \in Procs : result[p] = <<"refresh", "error">>

\* a step in which worker p's allocation commits, handing out <<key, n>>
AllocCommits(p) == Ends(p, AllocPoints, "ok")

\* a step in which worker p's resequence-all commits
ReseqCommits(p) == Ends(p, {"reseq_assign"}, "ok")

\* a step of the admin site's counter change list
AdminEdits ==
    \E p \in Procs, key \in DOMAIN counters, value \in 0..MaxCounter :
        AdminSetCounter(p, key, value)

Freed(handed) ==
    {e \in handed : UniqueOK(apps, FormatRegisterNo(e[1], e[2]), 0)}

RECURSIVE Restrict(_, _)
Restrict(order, keep) ==
    IF order = <<>> THEN <<>>
    ELSE IF Head(order) \in keep THEN <<Head(order)>> \o Restrict(Tail(order), keep)
    ELSE Restrict(Tail(order), keep)

InOrder(key) == Restrict(Ordered(apps, DOMAIN apps), AppsOf(key))

\* every counter equals the number of applications of its key, and they hold
\* K001, K002, ... in the order (submitted_at, pk)
Resequenced ==
    \A key \in Keys \cup DOMAIN counters :
        /\ key \in DOMAIN counters => counters[key] = Len(InOrder(key))
        /\ InOrder(key) # <<>> => key \in DOMAIN counters
        /\ \A i \in 1..Len(InOrder(key)) :
              apps[InOrder(key)[i]].register_no = FormatRegisterNo(key, i)

\* C5: after resequence-all commits, every counter equals the number of
\* applications deriving its key (0 when there is none), and these hold
\* K001..K<count> in the order (submitted_at, pk).
C5_ResequencePostcondition ==
    [][\A p \in Procs : ReseqCommits(p) => Resequenced']_vars

\* C5 for a resequence-all during which nothing else committed (not the claim:
\* what the code does achieve)
C5_UndisturbedResequence ==
    [][\A p \in Procs : ReseqCommits(p) /\ ~dirty[p] => Resequenced']_vars

\* C6: a resequence-all that commits right after another one, nothing else
\* having committed from the start of the first to the end of the second,
\* leaves every register_no and every counter as the first one left them.
C6_ResequenceTwice ==
    [][\A p \in Procs :
         ReseqCommits(p) /\ ~dirty[p] /\ lastReseq # <<>> =>
            /\ apps' = lastReseq[1]
            /\ counters' = lastReseq[2]]_vars

\* a second resequence-all in a row has committed over two applications of
\* which the first run had to renumber one
C6_Witness ==
    /\ lastReseq # <<>>
    /\ lastReseq[3] = 2
    /\ Cardinality(DOMAIN apps) >= 1
    /\ \E e \in Keys : e \in DOMAIN counters /\ counters[e] >= 1

ReseqPoints == {"reseq_reset", "reseq_assign"}

\* the rows worker p's resequence-all has loaded, of key
Listed(p, key) ==
    {loc[p].list[i].pk : i \in {j \in 1..Len(loc[p].list) :
                                   KeyOf[loc[p].list[j].program_name] = key}}

NoPlaceholder == \A pk \in DOMAIN apps : apps[pk].register_no[1] # "TMP"

\* C7: a resequence-all that fails leaves every register_no and every counter
\* as they were; one that commits replaces the numbers of all the rows it
\* loaded in one step (per key K001..K<n>, none left with a placeholder or its
\* old number by omission); no committed state holds a TMP placeholder.
C7_ResequenceAllOrNothing ==
    [][/\ \A p \in Procs :
            /\ Ends(p, ReseqPoints, "error") => apps' = apps /\ counters' = counters
            /\ ReseqCommits(p) =>
                  \A key \in Keys :
                      {apps'[pk].register_no : pk \in Listed(p, key)}
                          = {FormatRegisterNo(key, i) :
                                i \in 1..Cardinality(Listed(p, key))}
       /\ NoPlaceholder']_vars

\* a resequence-all has failed while applications exist
C7_Witness ==
    /\ \E p \in Procs : result[p] = <<"reseq", "error">>
    /\ DOMAIN apps # {}

\* C8: a single refresh that commits changes register_no of its application and
\* nothing else in the Application table, raises the counter of the key it
\* allocated from by exactly 1 and leaves every other counter alone.
C8_RefreshFrame ==
    [][\A p \in Procs :
         Ends(p, {"refresh_save"}, "ok") =>
            /\ apps' = [apps EXCEPT ![loc[p].pk].register_no = loc[p].regno]
            /\ loc[p].regno = FormatRegisterNo(loc[p].key, get_or_create(loc[p].key) + 1)
            /\ DOMAIN counters' = DOMAIN counters \cup {loc[p].key}
            /\ counters'[loc[p].key] = get_or_create(loc[p].key) + 1
            /\ \A k \in DOMAIN counters : k # loc[p].key => counters'[k] = counters[k]]_vars

\* a single refresh has committed while another application and another
\* counter exist
C8_Witness ==
    /\ \E p \in Procs : result[p] = <<"refresh", "ok">>
    /\ Cardinality(DOMAIN apps) >= 2
    /\ Cardinality(DOMAIN counters) >= 2

\* a step in which worker p's application_edit writes the row it loaded
EditCommits(p) == Ends(p, {"edit_save"}, "ok")

\* C11: after an edit commits, register_no of the application equals the value
\* stored immediately before the edit's write, also when a single refresh or a
\* resequence-all of that application committed between the edit's read of the
\* row and its save.
C11_EditKeepsRegisterNo ==
    [][\A p \in Procs :
         EditCommits(p) /\ loc[p].pk \in DOMAIN apps =>
            apps'[loc[p].pk].register_no = apps[loc[p].pk].register_no]_vars

\* an edit is about to save a row whose register_no was replaced after the
\* edit had read it
C11_StaleEdit ==
    \E p \in Procs :
        /\ pc[p] = "edit_save"
        /\ loc[p].pk \in DOMAIN apps
        /\ apps[loc[p].pk].register_no # loc[p].row.register_no

\* ------------------------------------------------------------------------
\* The helper functions
\* ------------------------------------------------------------------------
Levels == {"KG", "LP", "UP", "HS", "GEN"}

Prefixes == {"GMU", "ELU", "FOK", "CIN", "FAN", "MUS", "DRA", "DAN", "GEN"}

\* a key derivation has returned
Derived == call.fn = "key" /\ call.ret # <<>>

\* C12: key derivation returns, for every programme name (the empty string and
\* None included), a pair with level in {KG, LP, UP, HS, GEN} and prefix in
\* {GMU, ELU, FOK, CIN, FAN, MUS, DRA, DAN, GEN}; the empty string and None
\* yield (GEN, GEN).
C12_KeyDerivationTotal ==
    Derived =>
        /\ call.ret[1][1] \in Levels
        /\ call.ret[1][2] \in Prefixes
        /\ call.arg \in {<<>>, None} => call.ret[1] = <<"GEN", "GEN">>

\* the key of None has been derived
C12_Witness == Derived /\ call.arg = None

\* `w in title`, title being the lower-cased programme name
Has(name, w) == Contains(Lower(OrEmpty(name)), w)

Specific(name) ==
    \/ Has(name, <<"g","r","o","u","p"," ","s","o","n","g">>) \/ Has(name, <<"g","r","o","u","p"," ","s","i","n","g","i","n","g">>)
    \/ Has(name, <<"e","l","o","c","u","t","i","o","n">>)
    \/ Has(name, <<"f","o","l","k">>) /\ Has(name, <<"d","a","n","c","e">>)
    \/ (Has(name, <<"c","i","n","e","m","a","t","i","c">>) \/ Has(name, <<"c","i","n","e","m","a">>)) /\ Has(name, <<"d","a","n","c","e">>)
    \/ Has(name, <<"f","a","n","c","y">>) /\ Has(name, <<"d","r","e","s","s">>)

\* C13: the prefix rules are tried in a fixed order and the first match wins,
\* the specific rules before the generic ones: with no earlier rule matching,
\* group song/singing gives GMU, elocution ELU, folk and dance FOK, cinematic
\* (or cinema) and dance CIN, fancy and dress FAN, then music MUS, drawing DRA,
\* dance DAN, else GEN; so folk or cinema with dance never gives DAN,
\* 'HS Cinematic Dance' gives (HS, CIN), and DAN is returned only when no
\* specific rule and neither music nor drawing matches.
C13_FirstMatchWins ==
    Derived =>
        LET n == call.arg
            prefix == call.ret[1][2]
            gmu == Has(n, <<"g","r","o","u","p"," ","s","o","n","g">>) \/ Has(n, <<"g","r","o","u","p"," ","s","i","n","g","i","n","g">>)
            elu == Has(n, <<"e","l","o","c","u","t","i","o","n">>)
            fok == Has(n, <<"f","o","l","k">>) /\ Has(n, <<"d","a","n","c","e">>)
            cin == (Has(n, <<"c","i","n","e","m","a","t","i","c">>) \/ Has(n, <<"c","i","n","e","m","a">>)) /\ Has(n, <<"d","a","n","c","e">>)
            fan == Has(n, <<"f","a","n","c","y">>) /\ Has(n, <<"d","r","e","s","s">>)
            mus == Has(n, <<"m","u","s","i","c">>)
            dra == Has(n, <<"d","r","a","w","i","n","g">>)
            dan == Has(n, <<"d","a","n","c","e">>)
        IN /\ gmu => prefix = "GMU"
           /\ elu /\ ~gmu => prefix = "ELU"
           /\ fok /\ ~gmu /\ ~elu => prefix = "FOK"
           /\ cin /\ ~gmu /\ ~elu /\ ~fok => prefix = "CIN"
           /\ fan /\ ~gmu /\ ~elu /\ ~fok /\ ~cin => prefix = "FAN"
           /\ mus /\ ~Specific(n) => prefix = "MUS"
           /\ dra /\ ~Specific(n) /\ ~mus => prefix = "DRA"
           /\ dan /\ ~Specific(n) /\ ~mus /\ ~dra => prefix = "DAN"
           /\ ~Specific(n) /\ ~mus /\ ~dra /\ ~dan => prefix = "GEN"
           /\ (fok \/ cin) => prefix # "DAN"
           /\ prefix = "DAN" => ~Specific(n) /\ ~mus /\ ~dra
           /\ n = <<"H","S"," ","C","i","n","e","m","a","t","i","c"," ","D","a","n","c","e">> => call.ret[1] = <<"HS", "CIN">>

\* the key of 'HS Cinematic Dance' has been derived
C13_Witness == Derived /\ call.arg = <<"H","S"," ","C","i","n","e","m","a","t","i","c"," ","D","a","n","c","e">>

\* index of the first character of s that is in `stops` (0: there is none)
RECURSIVE FirstOf(_, _, _)
FirstOf(s, stops, i) ==
    IF i > Len(s) THEN 0
    ELSE IF s[i] \in stops THEN i
    ELSE FirstOf(s, stops, i + 1)

\* the level a recognised token stands for
LevelOfToken(tok) ==
    IF tok = <<"K","G">> THEN "KG"
    ELSE IF tok = <<"L","P">> THEN "LP"
    ELSE IF tok = <<"U","P">> THEN "UP"
    ELSE IF tok = <<"H","S">> THEN "HS"
    ELSE IF tok \in {<<"L","K","G">>, <<"U","K","G">>} THEN "KG"
    ELSE "GEN"

\* the leading token: the stripped name up to its first whitespace character
LeadingToken(name) ==
    LET s == Strip(OrEmpty(name))
        i == FirstOf(s, Whitespace, 1)
    IN IF i = 0 THEN s ELSE SubSeq(s, 1, i - 1)

\* the leading token of a name that goes on after a space character
TokenBeforeSpace(name) ==
    LET s == Strip(OrEmpty(name))
        i == FirstOf(s, {" "}, 1)
    IN IF i = 0 THEN <<>> ELSE SubSeq(s, 1, i - 1)

\* C14 as stated: the level is decided by the leading token of the name, read
\* case-insensitively: KG, LP, UP, HS give that level, LKG and UKG give KG,
\* everything else GEN.
C14_LevelOfLeadingToken ==
    Derived => call.ret[1][1] = LevelOfToken(Upper(LeadingToken(call.arg)))

\* C14 amended: the level is decided by the leading token only when a space
\* character follows it; a name that is the bare token, or has a tab after
\* the token, gives GEN.
C14_LevelOfTokenBeforeSpace ==
    Derived => call.ret[1][1] = LevelOfToken(Upper(TokenBeforeSpace(call.arg)))

\* the level of a name with blanks in front, a lower-case legacy token and a
\* title has been derived
C14_Witness == Derived /\ call.arg = <<" ","u","k","g"," ","M","u","s","i","c">> /\ call.ret[1][1] = "KG"

\* the decimal digits of n < 10000, at least three of them
ThreeDigits(n) ==
    IF n < 1000 THEN <<n \div 100, (n \div 10) % 10, n % 10>>
    ELSE <<n \div 1000, (n \div 100) % 10, (n \div 10) % 10, n % 10>>

\* C15: an allocation for a name of key (level, prefix) whose counter holds v
\* sets the counter to v+1 and returns level-prefix followed by v+1 padded with
\* zeros to three digits; from counter 0, 'LP Folk Dance' gets LP-FOK001 and
\* then LP-FOK002.
C15_AllocationFormat ==
    call.fn = "alloc" =>
        /\ call.counter = call.base + Len(call.ret)
        /\ \A i \in 1..Len(call.ret) :
              call.ret[i] = <<level_for_program(call.arg), "-", prefix_for_program(call.arg)>>
                               \o ThreeDigits(call.base + i)
        /\ call.arg = <<"L","P"," ","F","o","l","k"," ","D","a","n","c","e">> /\ call.base = 0 =>
              /\ Len(call.ret) >= 1 => call.ret[1] = <<"LP", "-", "FOK", 0, 0, 1>>
              /\ Len(call.ret) >= 2 => call.ret[2] = <<"LP", "-", "FOK", 0, 0, 2>>

\* 'LP Folk Dance' has been allocated two numbers from counter 0
C15_Witness ==
    /\ call.fn = "alloc"
    /\ call.arg = <<"L","P"," ","F","o","l","k"," ","D","a","n","c","e">>
    /\ call.base = 0
    /\ Len(call.ret) = 2

\* number of characters of a register number
Chars(regno) ==
    IF regno[1] = "TMP" THEN 3 + (Len(regno) - 1)
    ELSE (IF regno[1] = "GEN" THEN 3 ELSE 2) + 1 + 3 + (Len(regno) - 3)

\* C20: every register number written (by an allocation, and the placeholder
\* of resequence-all) has at most 10 characters, and the sequence part of a
\* number LEVEL-PREFIXNNN has exactly 3 digits.
C20_RegisterNoFits ==
    call.fn \in {"alloc", "tmp"} =>
        \A i \in 1..Len(call.ret) :
            /\ Chars(call.ret[i]) <= 10
            /\ call.fn = "alloc" => Len(call.ret[i]) - 3 = 3

AllWrites(p) == TmpWrites(loc[p].list) \o Walk(loc[p].list, 1, <<>>, <<>>).writes

\* the Application table as the transaction sees it after its first i writes
RECURSIVE Applied(_, _, _)
Applied(table, writes, i) ==
    IF i = 0 THEN table
    ELSE [Applied(table, writes, i - 1) EXCEPT ![writes[i][1]].register_no = writes[i][2]]

Distinct(table) ==
    \A a, b \in DOMAIN table : a # b => table[a].register_no # table[b].register_no

\* a step in which worker p's resequence-all runs its two passes
ReseqPasses(p) == pc[p] = "reseq_assign" /\ WaitsFor(p) = {} /\ pc'[p] = "idle"

\* C19: after every write of resequence-all (each placeholder, each final
\* number) the register numbers of all applications are pairwise distinct, so
\* the pass meets no unique-constraint violation.
C19_DistinctDuringPass ==
    [][\A p \in Procs :
         ReseqPasses(p) =>
            /\ \A i \in 1..Len(AllWrites(p)) : Distinct(Applied(apps, AllWrites(p), i))
            /\ result'[p] = <<"reseq", "ok">>]_vars

\* C19 for a resequence-all during which nothing else committed (not the
\* claim: what the code does achieve)
C19_UndisturbedPass ==
    [][\A p \in Procs :
         ReseqPasses(p) /\ ~dirty[p] =>
            /\ \A i \in 1..Len(AllWrites(p)) : Distinct(Applied(apps, AllWrites(p), i))
            /\ result'[p] = <<"reseq", "ok">>]_vars

\* ------------------------------------------------------------------------
\* C17: for every application stored by apply or application_edit, the
\* number of members lies between team_min and team_max (inclusive) of the
\* Programme matching its programme name, whatever team_min and team_max
\* the programme create and update handlers have stored
\* ------------------------------------------------------------------------
Stored == req.handler \in {"apply", "application_edit"} /\ req.outcome = "ok"

C17_MembersWithinProgrammeBounds ==
    Stored =>
        LET p == MatchingProgramme(apps[req.pk].program_name) IN
        p # 0 => /\ programmes[p].team_min <= Len(details[req.pk].members)
                 /\ Len(details[req.pk].members) <= programmes[p].team_max

\* the same for the programmes whose stored minimum does not exceed their
\* stored maximum
C17_WithinConsistentBounds ==
    Stored =>
        LET p == MatchingProgramme(apps[req.pk].program_name) IN
        (p # 0 /\ programmes[p].team_min <= programmes[p].team_max) =>
            /\ programmes[p].team_min <= Len(details[req.pk].members)
            /\ Len(details[req.pk].members) <= programmes[p].team_max

\* an application with more than one member is stored for a programme
C17_TeamStored ==
    /\ Stored
    /\ MatchingProgramme(apps[req.pk].program_name) # 0
    /\ Len(details[req.pk].members) > 1

\* ------------------------------------------------------------------------
\* C18: a request to an edit, delete, refresh, resequence, winner, school,
\* programme or banner handler from a session without is_logged_in leaves
\* applications, counters, schools, programmes and banners unchanged;
\* is_logged_in becomes true only by a login with the shared credential
\* (blanks around the posted username and password aside), and it is false
\* after a logout
\* ------------------------------------------------------------------------
AdminHandlers ==
    {"application_edit", "application_delete", "application_refresh_register_no",
     "applications_refresh_register_all", "application_winner_update",
     "winners_create", "winners_update", "winners_delete",
     "school_create", "school_update", "school_delete", "school_bulk_add",
     "program_create", "program_update", "program_delete", "program_edit_page",
     "banner_create", "banner_update", "banner_delete"}

Data == <<apps, counters, nextPk, now, schools, programmes, banners, details, nextId>>

SharedCredential(args) ==
    /\ Len(args) = 2
    /\ Strip(OrEmpty(args[1])) = <<"K","s","e","a","d","m","i","n">>
    /\ Strip(OrEmpty(args[2])) = <<"K","s","e","a","d","m","i","n">>

C18_OnlyAdminChangesData ==
    [][req'.client \in Clients =>
          /\ (req'.handler \in AdminHandlers /\ ~session[req'.client]) =>
                UNCHANGED Data
          /\ req'.handler # "apply" => (Data' # Data => session[req'.client])
          /\ \A c \in Clients :
                /\ (session'[c] /\ ~session[c]) =>
                      /\ req'.client = c
                      /\ req'.handler = "adminlogin_view"
                      /\ SharedCredential(req'.args)
                /\ (req'.client = c /\ req'.handler = "logout_view") => ~session'[c]
      ]_vars

\* a browser that is not logged in asks to delete a stored application and is
\* sent to the login page, while the other browser is logged in
C18_Witness ==
    /\ req.handler = "application_delete"
    /\ req.outcome = "login"
    /\ ~session[req.client]
    /\ \E c \in Clients : session[c]
    /\ DOMAIN apps # {}

\* ------------------------------------------------------------------------
\* C21: after any sequence of program_create, program_update and
\* program_edit_page requests every stored Programme has
\* 1 <= team_min <= team_max and team_max <= 5, the bounds of Programme.clean
\* ------------------------------------------------------------------------
\* def clean(self): team_min < 1, team_max > 5 and team_max < team_min raise
clean(p) == p.team_min >= 1 /\ p.team_max <= 5 /\ p.team_max >= p.team_min

C21_ProgrammesAreClean == \A pk \in DOMAIN programmes : clean(programmes[pk])

\* what the three handlers do keep: a minimum of at least 1 and a maximum of
\* at most 8, unless the minimum is above it
C21_ProgrammeBoundsKept ==
    \A pk \in DOMAIN programmes :
        /\ programmes[pk].team_min >= 1
        /\ programmes[pk].team_max <= max(8, programmes[pk].team_min)

\* ------------------------------------------------------------------------
\* C22: in every committed state reached by submissions, single refreshes,
\* deletes and resequence-all runs in any interleaving, an application whose
\* register number is key K followed by sequence n has Counter[K] >= n, so
\* that the next allocation for K returns no number an application holds
\* ------------------------------------------------------------------------
\* the key and the sequence number a register number is made of
KeyIn(regno) == <<regno[1], regno[3]>>

RECURSIVE Decimal(_)
Decimal(ds) ==
    IF ds = <<>> THEN 0 ELSE 10 * Decimal(SubSeq(ds, 1, Len(ds) - 1)) + ds[Len(ds)]

SequenceIn(regno) == Decimal(SubSeq(regno, 4, Len(regno)))

Numbered == {pk \in DOMAIN apps : apps[pk].register_no[1] # "TMP"}

C22_CounterCoversNumbers ==
    \A pk \in Numbered :
        get_or_create(KeyIn(apps[pk].register_no)) >= SequenceIn(apps[pk].register_no)

\* ------------------------------------------------------------------------
\* C23: in every committed state each application's register number starts
\* with the category key derived from its current programme name, after any
\* sequence of apply, application_edit, single refresh and resequence-all
\* ------------------------------------------------------------------------
KeyMatches(table, pk) == KeyIn(table[pk].register_no) = KeyFor(table[pk].program_name)

Examined(args) ==
    {Field(args[5], i) :
        i \in 1..TeamSize(Strip(OrEmpty(args[2])), args[4]).size}

TenDigits(mobile) == Len(SelectSeq(OrEmpty(mobile), IsDigit)) = 10

Rejected(args) ==
    \/ args[1] # "POST"
    \/ Strip(OrEmpty(args[2])) = <<>>
    \/ Strip(OrEmpty(args[4])) # <<>> /\ ~int(Strip(OrEmpty(args[4]))).ok
    \/ args[3] \notin DOMAIN schools
    \/ \E f \in Examined(args) :
          \/ Strip(OrEmpty(f.name)) = <<>>
          \/ Strip(OrEmpty(f.mobile)) = <<>>
          \/ ~TenDigits(f.mobile)
          \/ SelectSeq(OrEmpty(f.alt), IsDigit) # <<>> /\ ~TenDigits(f.alt)

C24_RejectedSubmissionStoresNothing ==
    [][(req'.handler = "apply" /\ started' # started /\ Rejected(req'.args)) =>
          UNCHANGED <<apps, details, counters, nextPk>>]_vars

\* a form with a five-digit mobile was refused after an application had
\* been stored
C24_Witness ==
    /\ req.handler = "apply"
    /\ req.outcome = "error"
    /\ Rejected(req.args)
    /\ req.args[5][1].mobile = <<"9","8","7","6","5">>
    /\ req.args[1] = "POST"
    /\ req.args[3] = 1
    /\ DOMAIN apps # {}
    /\ DOMAIN counters # {}

\* ------------------------------------------------------------------------
\* C25: every stored application has at least one member, its team_size is
\* the number of its members, and its name and mobile are those of its
\* first member; apply and application_edit never read the first entry of
\* an empty members list
\* ------------------------------------------------------------------------
C25_TeamIsItsMembers ==
    /\ \A a \in DOMAIN details :
          /\ Len(details[a].members) >= 1
          /\ details[a].team_size = Len(details[a].members)
          /\ details[a].name = details[a].members[1].name
          /\ details[a].mobile = details[a].members[1].mobile
    /\ req.outcome # "IndexError"

\* a form posted with team size 0 was stored with one member
C25_Witness ==
    /\ req.handler = "apply"
    /\ req.outcome = "ok"
    /\ req.args[4] = <<"0">>
    /\ req.pk \in DOMAIN details
    /\ details[req.pk].team_size = 1
    /\ Len(details[req.pk].members) = 1

\* an edit stored a team of several members
C25_WitnessEdit ==
    /\ req.handler = "application_edit"
    /\ req.outcome = "ok"
    /\ req.pk \in DOMAIN details
    /\ Len(details[req.pk].members) > 1

\* ------------------------------------------------------------------------
\* C26: every application references a School that exists: school_delete
\* of a school that an application references fails with an error and
\* leaves the school and the applications as they are; school_delete of a
\* school that no application references removes it
\* ------------------------------------------------------------------------
C26_ApplicationsKeepTheirSchool ==
    [][/\ \A a \in DOMAIN details' : details'[a].school \in DOMAIN schools'
       /\ (/\ req'.handler = "school_delete"
           /\ started' # started
           /\ session[req'.client]
           /\ req'.args[1] \in DOMAIN schools)
          => IF \E a \in DOMAIN details : details[a].school = req'.args[1]
             THEN /\ req'.outcome = "error"
                  /\ UNCHANGED <<schools, apps, details>>
             ELSE /\ req'.outcome = "ok"
                  /\ DOMAIN schools' = DOMAIN schools \ {req'.args[1]}
                  /\ \A k \in DOMAIN schools' : schools'[k] = schools[k]
                  /\ UNCHANGED <<apps, details>>]_vars

\* the deletion of a school that an application references was refused
C26_Witness ==
    /\ req.handler = "school_delete"
    /\ req.outcome = "error"
    /\ req.args[1] \in DOMAIN schools
    /\ \E a \in DOMAIN details : details[a].school = req.args[1]

\* a school that no application references was deleted while another
\* school is referenced
C26_WitnessRemoved ==
    /\ req.handler = "school_delete"
    /\ req.outcome = "ok"
    /\ req.args[1] \notin DOMAIN schools
    /\ DOMAIN details # {}

====
